---- MODULE Spec2Model ----
(***************************************************************************)
(* Model of the JSON library migration engine (src/JSONMigrators.py):      *)
(* JSONMigrator and its four subclasses, the entity filter, the key        *)
(* normaliser and the batch entry point migrate_all.                       *)
(*                                                                         *)
(* JSON values are tagged records.  A Python dict is                       *)
(*   [t |-> "dict", k |-> <<keys in insertion order>>, d |-> [key |-> v]]  *)
(* so that iteration order (which get_items_matching_class exposes) and    *)
(* the key sorting of json.dump(sort_keys=True) are both part of the model.*)
(***************************************************************************)
EXTENDS Integers, Sequences, FiniteSets, TLC

VARIABLES
    files,        \* file name (one per migrator class) -> content on disk
    family,       \* class of the migrator object that is running
    jsonDict,     \* self.jsonDict
    primaryDict,  \* self.primaryDict
    aliased,      \* self.primaryDict is the object stored in self.jsonDict[primaryKey]
    messages,     \* the local list "messages" of migrate()
    pc,           \* position of the migrate() call
    err,          \* exception propagating out of migrate(), "none" if none
    returned,     \* value returned by migrate(), None before it returns
    console,      \* what print() wrote during the call
    prompts,      \* the input() exchanges of the call: the AWG asked for and the answer
    io,           \* open() calls of the call(s), in order
    applied,      \* source versions of the step functions that returned
    startFiles,   \* content of the files when the current call started
    runs,         \* number of migrate() calls started on the file
    idx,          \* migrate_all: position in the list of migrators (0 = not in migrate_all)
    allMessages,  \* migrate_all: the list "messages" of per-migrator lists
    batchResult,  \* migrate_all: returned list, None before it returns
    previous,     \* how the previous migrate() call on the file ended
    classesArg,   \* entity filter: the argument "classes" of the calls
    matching,     \* entity filter: the lists the calls returned, in order
    arg,          \* pure functions: the arguments of the calls
    results       \* pure functions: the values the calls returned, in order

vars == <<files, family, jsonDict, primaryDict, aliased, messages, pc, err,
          returned, console, prompts, io, applied, startFiles, runs,
          idx, allMessages, batchResult, previous, classesArg, matching,
          arg, results>>

\* the variables of the calls of get_items_matching_class on their own
filterVars == <<classesArg, matching>>

\* the variables of the calls of the pure functions (snakeify, rec_snakeify, the coders)
pureVars == <<arg, results>>

(***************************************************************************)
(* Bounds                                                                  *)
(***************************************************************************)
MaxRuns == 2          \* migrate() calls on one file in Spec
VersionSlack == 1     \* loaded versions range over -VersionSlack .. max_version + VersionSlack

(***************************************************************************)
(* JSON values and Python dict operations                                  *)
(***************************************************************************)
None == [t |-> "none"]
JStr(s) == [t |-> "str", s |-> s]
JInt(n) == [t |-> "int", n |-> n]
JList == [t |-> "list"]
JDict(keys, map) == [t |-> "dict", k |-> keys, d |-> map]
EmptyDict == JDict(<<>>, <<>>)

Range(s) == {s[i] : i \in 1..Len(s)}

IsDict(j) == j.t = "dict"
Has(j, key) == key \in DOMAIN j.d
Get(j, key) == j.d[key]

\* d[key] = v
Put(j, key, v) ==
    IF key \in DOMAIN j.d
    THEN [j EXCEPT !.d = [x \in DOMAIN j.d |-> IF x = key THEN v ELSE j.d[x]]]
    ELSE JDict(Append(j.k, key),
               [x \in DOMAIN j.d \cup {key} |-> IF x = key THEN v ELSE j.d[x]])

\* del d[key] / d.pop(key)
Del(j, key) ==
    JDict(SelectSeq(j.k, LAMBDA x : x # key),
          [x \in DOMAIN j.d \ {key} |-> j.d[x]])

\* dict literal from a sequence of <<key, value>> pairs
Lit(pairs) ==
    JDict([i \in 1..Len(pairs) |-> pairs[i][1]],
          [x \in {pairs[i][1] : i \in 1..Len(pairs)} |->
              (CHOOSE p \in Range(pairs) : p[1] = x)[2]])

\* bool(value), as used by "if self.jsonDict:" and "if ch['AWG']:"
Truthy(j) ==
    CASE j.t = "none" -> FALSE
      [] j.t = "str"  -> j.s # ""
      [] j.t = "int"  -> j.n # 0
      [] j.t = "dict" -> j.k # <<>>
      [] OTHER        -> TRUE

(***************************************************************************)
(* Strings.  A Python str is a sequence of characters; the keys the model  *)
(* uses are listed in Chars with their characters, so that the regular     *)
(* expressions of snakeify and the key order of sort_keys are computed on  *)
(* the characters.                                                         *)
(***************************************************************************)
Uppers == <<"A","B","C","D","E","F","G","H","I","J","K","L","M",
            "N","O","P","Q","R","S","T","U","V","W","X","Y","Z">>
Lowers == <<"a","b","c","d","e","f","g","h","i","j","k","l","m",
            "n","o","p","q","r","s","t","u","v","w","x","y","z">>
Digits == <<"0","1","2","3","4","5","6","7","8","9">>

\* characters in code point order, as far as the model uses them
AsciiOrder == <<".">> \o Digits \o Uppers \o <<"_">> \o Lowers

IsUpper(c) == c \in Range(Uppers)
IsLower(c) == c \in Range(Lowers)
IsDigit(c) == c \in Range(Digits)

IndexOf(seq, c) == CHOOSE i \in 1..Len(seq) : seq[i] = c

\* str.lower() on one character
LowerChar(c) == IF IsUpper(c) THEN Lowers[IndexOf(Uppers, c)] ELSE c

\* last index of the run [a-z]+ that starts at index j
RECURSIVE LowerRunEnd(_, _)
LowerRunEnd(s, j) ==
    IF j < Len(s) /\ IsLower(s[j + 1]) THEN LowerRunEnd(s, j + 1) ELSE j

\* first_cap_re.sub(r'\1_\2', s) from index i on, first_cap_re = '(.)([A-Z][a-z]+)'
RECURSIVE first_cap_sub(_, _)
first_cap_sub(s, i) ==
    IF i > Len(s) THEN <<>>
    ELSE IF i + 2 <= Len(s) /\ IsUpper(s[i + 1]) /\ IsLower(s[i + 2])
         THEN LET e == LowerRunEnd(s, i + 2)
              IN  <<s[i], "_">> \o SubSeq(s, i + 1, e) \o first_cap_sub(s, e + 1)
         ELSE <<s[i]>> \o first_cap_sub(s, i + 1)

\* all_cap_re.sub(r'\1_\2', s) from index i on, all_cap_re = '([a-z0-9])([A-Z])'
RECURSIVE all_cap_sub(_, _)
all_cap_sub(s, i) ==
    IF i > Len(s) THEN <<>>
    ELSE IF i + 1 <= Len(s) /\ (IsLower(s[i]) \/ IsDigit(s[i])) /\ IsUpper(s[i + 1])
         THEN <<s[i], "_", s[i + 1]>> \o all_cap_sub(s, i + 2)
         ELSE <<s[i]>> \o all_cap_sub(s, i + 1)

\* snakeify without its first substitution
snakeifyChars_one_pass(name) ==
    LET s2 == all_cap_sub(name, 1)
    IN  [i \in 1..Len(s2) |-> LowerChar(s2[i])]

\* snakeify on the characters of a name
snakeifyChars(name) ==
    LET s1 == first_cap_sub(name, 1)
        s2 == all_cap_sub(s1, 1)
    IN  [i \in 1..Len(s2) |-> LowerChar(s2[i])]

Chars ==
       "AWG" :> <<"A","W","G">>
    @@ "IFfreq" :> <<"I","F","f","r","e","q">>
    @@ "InnerKey" :> <<"I","n","n","e","r","K","e","y">>
    @@ "K1" :> <<"K","1">>
    @@ "M1" :> <<"M","1">>
    @@ "Outer" :> <<"O","u","t","e","r">>
    @@ "R1" :> <<"R","1">>
    @@ "SSBFreq" :> <<"S","S","B","F","r","e","q">>
    @@ "SomeField" :> <<"S","o","m","e","F","i","e","l","d">>
    @@ "__class__" :> <<"_","_","c","l","a","s","s","_","_">>
    @@ "__module__" :> <<"_","_","m","o","d","u","l","e","_","_">>
    @@ "acquire_mode" :> <<"a","c","q","u","i","r","e","_","m","o","d","e">>
    @@ "address" :> <<"a","d","d","r","e","s","s">>
    @@ "awg" :> <<"a","w","g">>
    @@ "boxCarStart" :> <<"b","o","x","C","a","r","S","t","a","r","t">>
    @@ "box_car_start" :> <<"b","o","x","_","c","a","r","_","s","t","a","r","t">>
    @@ "channel" :> <<"c","h","a","n","n","e","l">>
    @@ "channelDict" :> <<"c","h","a","n","n","e","l","D","i","c","t">>
    @@ "channel_dict" :> <<"c","h","a","n","n","e","l","_","d","i","c","t">>
    @@ "channels" :> <<"c","h","a","n","n","e","l","s">>
    @@ "decim_factor1" :> <<"d","e","c","i","m","_","f","a","c","t","o","r","1">>
    @@ "decim_factor2" :> <<"d","e","c","i","m","_","f","a","c","t","o","r","2">>
    @@ "decim_factor3" :> <<"d","e","c","i","m","_","f","a","c","t","o","r","3">>
    @@ "decim_factor_1" :> <<"d","e","c","i","m","_","f","a","c","t","o","r","_","1">>
    @@ "decim_factor_2" :> <<"d","e","c","i","m","_","f","a","c","t","o","r","_","2">>
    @@ "decim_factor_3" :> <<"d","e","c","i","m","_","f","a","c","t","o","r","_","3">>
    @@ "demodKernel" :> <<"d","e","m","o","d","K","e","r","n","e","l">>
    @@ "demod_kernel" :> <<"d","e","m","o","d","_","k","e","r","n","e","l">>
    @@ "digitizerMode" :> <<"d","i","g","i","t","i","z","e","r","M","o","d","e">>
    @@ "digitizer_mode" :> <<"d","i","g","i","t","i","z","e","r","_","m","o","d","e">>
    @@ "enableDemodResultStream" :> <<"e","n","a","b","l","e","D","e","m","o","d","R","e","s","u","l","t","S","t","r","e","a","m">>
    @@ "enableRawResultStream" :> <<"e","n","a","b","l","e","R","a","w","R","e","s","u","l","t","S","t","r","e","a","m">>
    @@ "enableResultStream" :> <<"e","n","a","b","l","e","R","e","s","u","l","t","S","t","r","e","a","m">>
    @@ "enable_demod_result_stream" :> <<"e","n","a","b","l","e","_","d","e","m","o","d","_","r","e","s","u","l","t","_","s","t","r","e","a","m">>
    @@ "enable_raw_result_stream" :> <<"e","n","a","b","l","e","_","r","a","w","_","r","e","s","u","l","t","_","s","t","r","e","a","m">>
    @@ "enable_result_stream" :> <<"e","n","a","b","l","e","_","r","e","s","u","l","t","_","s","t","r","e","a","m">>
    @@ "filterDict" :> <<"f","i","l","t","e","r","D","i","c","t">>
    @@ "filter_dict" :> <<"f","i","l","t","e","r","_","d","i","c","t">>
    @@ "frequency" :> <<"f","r","e","q","u","e","n","c","y">>
    @@ "i_ffreq" :> <<"i","_","f","f","r","e","q">>
    @@ "if_freq" :> <<"i","f","_","f","r","e","q">>
    @@ "inner_key" :> <<"i","n","n","e","r","_","k","e","y">>
    @@ "instrDict" :> <<"i","n","s","t","r","D","i","c","t">>
    @@ "instr_dict" :> <<"i","n","s","t","r","_","d","i","c","t">>
    @@ "k1" :> <<"k","1">>
    @@ "kernel" :> <<"k","e","r","n","e","l">>
    @@ "label" :> <<"l","a","b","e","l">>
    @@ "lb" :> <<"l","b">>
    @@ "m1" :> <<"m","1">>
    @@ "note" :> <<"n","o","t","e">>
    @@ "numPoints" :> <<"n","u","m","P","o","i","n","t","s">>
    @@ "num_points" :> <<"n","u","m","_","p","o","i","n","t","s">>
    @@ "outer" :> <<"o","u","t","e","r">>
    @@ "p1" :> <<"p","1">>
    @@ "physChan" :> <<"p","h","y","s","C","h","a","n">>
    @@ "phys_chan" :> <<"p","h","y","s","_","c","h","a","n">>
    @@ "plotMode" :> <<"p","l","o","t","M","o","d","e">>
    @@ "plot_mode" :> <<"p","l","o","t","_","m","o","d","e">>
    @@ "plot_scope" :> <<"p","l","o","t","_","s","c","o","p","e">>
    @@ "q1" :> <<"q","1">>
    @@ "q2" :> <<"q","2">>
    @@ "r1" :> <<"r","1">>
    @@ "rawKernel" :> <<"r","a","w","K","e","r","n","e","l">>
    @@ "raw_kernel" :> <<"r","a","w","_","k","e","r","n","e","l">>
    @@ "records_file_path" :> <<"r","e","c","o","r","d","s","_","f","i","l","e","_","p","a","t","h">>
    @@ "s1" :> <<"s","1">>
    @@ "s11" :> <<"s","1","1">>
    @@ "save_records" :> <<"s","a","v","e","_","r","e","c","o","r","d","s">>
    @@ "saved" :> <<"s","a","v","e","d">>
    @@ "scope" :> <<"s","c","o","p","e">>
    @@ "some_field" :> <<"s","o","m","e","_","f","i","e","l","d">>
    @@ "ssb_freq" :> <<"s","s","b","_","f","r","e","q">>
    @@ "sweepDict" :> <<"s","w","e","e","p","D","i","c","t">>
    @@ "sweep_dict" :> <<"s","w","e","e","p","_","d","i","c","t">>
    @@ "translator" :> <<"t","r","a","n","s","l","a","t","o","r">>
    @@ "trigChan" :> <<"t","r","i","g","C","h","a","n">>
    @@ "trig_chan" :> <<"t","r","i","g","_","c","h","a","n">>
    @@ "version" :> <<"v","e","r","s","i","o","n">>
    @@ "x__class__" :> <<"x","_","_","c","l","a","s","s","_","_">>
    @@ "x__module__" :> <<"x","_","_","m","o","d","u","l","e","_","_">>
    @@ "yoko" :> <<"y","o","k","o">>


Str(cs) == CHOOSE s \in DOMAIN Chars : Chars[s] = cs

snakeify(name) == Str(snakeifyChars(Chars[name]))

\* a < b for two strings, by code points
RECURSIVE CharsLess(_, _)
CharsLess(a, b) ==
    IF b = <<>> THEN FALSE
    ELSE IF a = <<>> THEN TRUE
    ELSE IF a[1] = b[1] THEN CharsLess(Tail(a), Tail(b))
    ELSE IndexOf(AsciiOrder, a[1]) < IndexOf(AsciiOrder, b[1])

StrLess(a, b) == CharsLess(Chars[a], Chars[b])

\* sorted(S) for a set of strings
RECURSIVE Sorted(_)
Sorted(S) ==
    IF S = {} THEN <<>>
    ELSE LET m == CHOOSE x \in S : \A y \in S : x = y \/ StrLess(x, y)
         IN  <<m>> \o Sorted(S \ {m})

\* the value json.load reads back from what json.dump(..., sort_keys=True) wrote
RECURSIVE SortKeys(_)
SortKeys(j) ==
    IF j.t = "dict"
    THEN JDict(Sorted(DOMAIN j.d), [x \in DOMAIN j.d |-> SortKeys(j.d[x])])
    ELSE j

\* Recursively re-label dictionary
RECURSIVE rec_snakeify(_, _, _)
RECURSIVE rec_snakeify_items(_, _, _, _, _)
rec_snakeify_items(dictionary, start_level, level, i, new) ==
    IF i > Len(dictionary.k) THEN new
    ELSE LET k  == dictionary.k[i]
             v0 == dictionary.d[k]
             v  == IF IsDict(v0)
                   THEN rec_snakeify(v0, start_level, level + 1)
                   ELSE v0
         IN  rec_snakeify_items(dictionary, start_level, level, i + 1,
                 Put(new, IF level >= start_level THEN snakeify(k) ELSE k, v))

\* start_level is dropped: every level is re-labelled
rec_snakeify_every_level(dictionary, start_level, level) ==
    rec_snakeify_items(dictionary, 0, level, 1, EmptyDict)

rec_snakeify(dictionary, start_level, level) ==
    rec_snakeify_items(dictionary, start_level, level, 1, EmptyDict)

(***************************************************************************)
(* The migrator classes                                                    *)
(***************************************************************************)
Classes == {"InstrumentMigrator", "ChannelMigrator", "SweepMigrator", "MeasurementMigrator"}

\* arguments of JSONMigrator.__init__ in the constructors of the subclasses
libraryClass(cls) ==
    CASE cls = "InstrumentMigrator"  -> "InstrumentLibrary"
      [] cls = "ChannelMigrator"     -> "ChannelLibrary"
      [] cls = "SweepMigrator"       -> "SweepLibrary"
      [] cls = "MeasurementMigrator" -> "MeasFilterLibrary"

primaryKey(cls) ==
    CASE cls = "InstrumentMigrator"  -> "instrDict"
      [] cls = "ChannelMigrator"     -> "channelDict"
      [] cls = "SweepMigrator"       -> "sweepDict"
      [] cls = "MeasurementMigrator" -> "filterDict"

max_version(cls) ==
    CASE cls = "InstrumentMigrator"  -> 4
      [] cls = "ChannelMigrator"     -> 4
      [] cls = "SweepMigrator"       -> 1
      [] cls = "MeasurementMigrator" -> 2

\* OwnSteps with InstrumentMigrator.version_2_to_3 left out
OwnSteps_gap(cls) ==
    CASE cls = "InstrumentMigrator"  -> {1, 3}
      [] cls = "ChannelMigrator"     -> {1, 2, 3}
      [] cls = "SweepMigrator"       -> {}
      [] cls = "MeasurementMigrator" -> {1}

\* n such that the class body defines version_<n>_to_<n+1>
OwnSteps(cls) ==
    CASE cls = "InstrumentMigrator"  -> {1, 2, 3}
      [] cls = "ChannelMigrator"     -> {1, 2, 3}
      [] cls = "SweepMigrator"       -> {}
      [] cls = "MeasurementMigrator" -> {1}

\* n such that JSONMigrator itself defines version_<n>_to_<n+1>
BaseSteps == {0}

\* getattr(self, "version_<n>_to_<n+1>") finds a method
HasStep(cls, n) == n \in OwnSteps(cls) \cup BaseSteps

(***************************************************************************)
(* JSONMigrator: version, is_class, json_input_validate, the entity filter *)
(***************************************************************************)
\* self.jsonDict['version'], 0 when the lookup fails
version(jd) ==
    IF jd.t = "dict" /\ Has(jd, "version") THEN Get(jd, "version").n ELSE 0

\* the argument "classes": one name given as a str, or a list of names
ClassName(s) == JStr(s)
ClassList(seq) == [t |-> "list", e |-> seq]

\* is_class without the comparison of the tag value
is_class_any_tag(jd, searchClasses) ==
    IF jd.t # "dict" THEN FALSE
    ELSE Has(jd, "x__class__")

\* is_class with "return False" inside the loop: only the first name is compared
is_class_first_only(jd, searchClasses) ==
    LET classes == IF searchClasses.t = "str"
                   THEN <<searchClasses.s>>
                   ELSE searchClasses.e
    IN  IF jd.t # "dict" THEN FALSE
        ELSE IF ~Has(jd, "x__class__") THEN FALSE
        ELSE classes # <<>> /\ Get(jd, "x__class__") = JStr(classes[1])

is_class(jd, searchClasses) ==
    LET classes == IF searchClasses.t = "str"
                   THEN <<searchClasses.s>>
                   ELSE searchClasses.e
    IN  IF jd.t # "dict" THEN FALSE
        ELSE IF ~Has(jd, "x__class__") THEN FALSE
        ELSE \E i \in 1..Len(classes) : Get(jd, "x__class__") = JStr(classes[i])

json_input_validate(jd, cls) ==
    ~(~is_class(jd, ClassName(libraryClass(cls))) \/ ~Has(jd, primaryKey(cls)))

get_items_matching_class(pd, classes) ==
    SelectSeq(pd.k, LAMBDA a : is_class(pd.d[a], classes))

(***************************************************************************)
(* Files                                                                   *)
(***************************************************************************)
Missing == [kind |-> "missing"]
Garbage == [kind |-> "text"]                 \* content that is not JSON
JsonFile(j) == [kind |-> "json", val |-> j]

OpenRead(cls) == [op |-> "r", file |-> cls]
OpenWrite(cls) == [op |-> "w", file |-> cls]

\* "Migrating: <class>.version_<n>_to_<n+1>()"
Msg(cls, n) == [cls |-> cls, from |-> n, to |-> n + 1]

(***************************************************************************)
(* JSONMigrator.load, followed by the test "if self.jsonDict:" of migrate  *)
(***************************************************************************)
load ==
    /\ pc = "start"
    /\ io' = Append(io, OpenRead(family))
    /\ LET f == files[family]
       IN  IF f.kind = "text"
           THEN \* json.load raises; only IOError is caught
                /\ pc' = "raised"
                /\ err' = "JSONDecodeError"
                /\ UNCHANGED <<jsonDict, primaryDict, aliased, console, returned>>
           ELSE LET read == IF f.kind = "missing" THEN None ELSE f.val
                    out1 == IF f.kind = "missing" THEN <<"json file not found">> ELSE <<>>
                    valid == json_input_validate(read, family)
                IN  /\ console' = console \o out1 \o
                           (IF valid THEN <<>> ELSE <<"Error json file is not a class">>)
                    /\ jsonDict' = IF valid THEN read ELSE None
                    /\ primaryDict' = IF valid THEN Get(read, primaryKey(family)) ELSE primaryDict
                    /\ aliased' = valid
                    /\ IF Truthy(jsonDict')
                       THEN pc' = "loop" /\ returned' = returned
                       ELSE pc' = "returned" /\ returned' = [t |-> "list", e |-> messages]
                    /\ err' = err
    /\ UNCHANGED <<files, family, messages, prompts, applied, startFiles, runs,
                   idx, allMessages, batchResult,
                   previous, filterVars, pureVars>>

\* the loop condition with <= for <
loop_condition_le(jd, cls) == version(jd) <= max_version(cls)

\* the condition of the while loop of migrate
loop_condition(jd, cls) == version(jd) < max_version(cls)

(***************************************************************************)
(* JSONMigrator.save, reached when the loop of migrate ends                *)
(***************************************************************************)
\* save called from a "finally" clause: also when a step raised
save_in_finally ==
    /\ pc \in {"loop", "raised"}
    /\ pc = "loop" => ~loop_condition(jsonDict, family)
    /\ io = <<OpenRead(family)>>
    /\ jsonDict.t = "dict"
    /\ jsonDict' = Put(jsonDict, primaryKey(family), primaryDict)
    /\ aliased' = TRUE
    /\ files' = [files EXCEPT ![family] = JsonFile(SortKeys(jsonDict'))]
    /\ io' = Append(io, OpenWrite(family))
    /\ pc' = IF pc = "loop" THEN "returned" ELSE "raised"
    /\ returned' = IF pc = "loop" THEN [t |-> "list", e |-> messages] ELSE returned
    /\ UNCHANGED <<family, primaryDict, messages, err, console, prompts, applied,
                   startFiles, runs, idx, allMessages, batchResult,
                   previous, filterVars, pureVars>>

\* save without "self.jsonDict[self.primaryKey] = self.primaryDict"
save_without_primaryDict ==
    /\ pc = "loop"
    /\ ~loop_condition(jsonDict, family)
    /\ files' = [files EXCEPT ![family] = JsonFile(SortKeys(jsonDict))]
    /\ io' = Append(io, OpenWrite(family))
    /\ pc' = "returned"
    /\ returned' = [t |-> "list", e |-> messages]
    /\ UNCHANGED <<family, jsonDict, primaryDict, aliased, messages, err, console,
                   prompts, applied, startFiles, runs, idx, allMessages, batchResult,
                   previous, filterVars, pureVars>>

save ==
    /\ pc = "loop"
    /\ ~loop_condition(jsonDict, family)
    /\ jsonDict' = Put(jsonDict, primaryKey(family), primaryDict)
    /\ aliased' = TRUE
    /\ files' = [files EXCEPT ![family] = JsonFile(SortKeys(jsonDict'))]
    /\ io' = Append(io, OpenWrite(family))
    /\ pc' = "returned"
    /\ returned' = [t |-> "list", e |-> messages]
    /\ UNCHANGED <<family, primaryDict, messages, err, console, prompts, applied,
                   startFiles, runs, idx, allMessages, batchResult,
                   previous, filterVars, pureVars>>

(***************************************************************************)
(* One iteration of the loop of migrate.  r is the outcome of function():  *)
(*   r.err   the exception it raised, "none" if it returned                *)
(*   r.jd    self.jsonDict after it (top-level fields)                     *)
(*   r.pd    self.primaryDict after it                                     *)
(*   r.rebound  it assigned a new object to self.primaryDict               *)
(*   r.out, r.asked  what it printed and the prompts it issued             *)
(***************************************************************************)
Outcome(e, jd, pd, rebound, out, asked) ==
    [err |-> e, jd |-> jd, pd |-> pd, rebound |-> rebound, out |-> out, asked |-> asked]

iteration(cls, n, r) ==
    /\ pc = "loop"
    /\ family = cls
    /\ loop_condition(jsonDict, family)
    /\ version(jsonDict) = n
    /\ HasStep(family, n)
    /\ messages' = Append(messages, Msg(family, n))
    /\ aliased' = (aliased /\ ~r.rebound)
    /\ primaryDict' = r.pd
    /\ LET jd1 == IF aliased' THEN Put(r.jd, primaryKey(family), r.pd) ELSE r.jd
       IN  jsonDict' = IF r.err = "none"
                       THEN Put(jd1, "version", JInt(version(jd1) + 1))
                       ELSE jd1
    /\ console' = console \o r.out
    /\ prompts' = prompts \o r.asked
    /\ applied' = IF r.err = "none" THEN Append(applied, n) ELSE applied
    /\ pc' = IF r.err = "none" THEN "loop" ELSE "raised"
    /\ err' = r.err
    /\ UNCHANGED <<files, family, returned, io, startFiles, runs,
                   idx, allMessages, batchResult,
                   previous, filterVars, pureVars>>

\* a missing method treated as a step that does nothing
missing_step_skips ==
    /\ pc = "loop"
    /\ loop_condition(jsonDict, family)
    /\ ~HasStep(family, version(jsonDict))
    /\ messages' = Append(messages, Msg(family, version(jsonDict)))
    /\ jsonDict' = Put(jsonDict, "version", JInt(version(jsonDict) + 1))
    /\ UNCHANGED <<files, family, primaryDict, aliased, returned, console, pc, err,
                   prompts, io, applied, startFiles, runs, idx, allMessages, batchResult,
                   previous, filterVars, pureVars>>

\* getattr(self, migrate_function) finds no such method
missing_step ==
    /\ pc = "loop"
    /\ loop_condition(jsonDict, family)
    /\ ~HasStep(family, version(jsonDict))
    /\ messages' = Append(messages, Msg(family, version(jsonDict)))
    /\ pc' = "raised"
    /\ err' = "AttributeError"
    /\ UNCHANGED <<files, family, jsonDict, primaryDict, aliased, returned, console,
                   prompts, io, applied, startFiles, runs, idx, allMessages, batchResult,
                   previous, filterVars, pureVars>>

(***************************************************************************)
(* JSONMigrator.version_0_to_1: does nothing but bump version number       *)
(***************************************************************************)
version_0_to_1 ==
    /\ pc = "loop"
    /\ iteration(family, 0, Outcome("none", jsonDict, primaryDict, FALSE, <<>>, <<>>))

(***************************************************************************)
(* Helpers for the step functions                                          *)
(***************************************************************************)
\* self.primaryDict[name][field] = v
PutIn(pd, name, field, v) == Put(pd, name, Put(Get(pd, name), field, v))

\* del self.primaryDict[name][field]
DelIn(pd, name, field) == Put(pd, name, Del(Get(pd, name), field))

\* "key in value" for a dict, a str without that substring, or a list without that item
In(key, j) == j.t = "dict" /\ Has(j, key)

\* the orders in which a set can be iterated
Orders(S) == {o \in [1..Cardinality(S) -> S] : \A i, j \in 1..Cardinality(S) : o[i] = o[j] => i = j}

(***************************************************************************)
(* ChannelMigrator.version_1_to_2                                          *)
(* Move SSBFreq from Physical Channel for Qubits to the Logical Channel    *)
(***************************************************************************)
\* phase 1, from the i-th logical channel on: copy the data
\* phase 1 without the two tests: the look-up of a missing key raises
RECURSIVE Channel_copy_SSBFreq_unchecked(_, _, _, _)
Channel_copy_SSBFreq_unchecked(pd, logicalChannels, i, out) ==
    IF i > Len(logicalChannels) THEN [err |-> "none", pd |-> pd, out |-> out]
    ELSE LET lc == logicalChannels[i]
         IN  IF ~Has(Get(pd, lc), "physChan")
             THEN [err |-> "KeyError", pd |-> pd, out |-> out]
             ELSE LET chan == Get(Get(pd, lc), "physChan")
                  IN  IF ~(chan.t = "str" /\ Has(pd, chan.s))
                      THEN [err |-> "KeyError", pd |-> pd, out |-> out]
                      ELSE IF ~In("SSBFreq", Get(pd, chan.s))
                      THEN [err |-> "KeyError", pd |-> pd, out |-> out]
                      ELSE Channel_copy_SSBFreq_unchecked(
                               PutIn(pd, lc, "frequency", Get(Get(pd, chan.s), "SSBFreq")),
                               logicalChannels, i + 1, out)

\* one phase: the data is deleted from the physical channel as soon as it is copied
RECURSIVE Channel_move_SSBFreq(_, _, _, _)
Channel_move_SSBFreq(pd, logicalChannels, i, out) ==
    IF i > Len(logicalChannels) THEN [err |-> "none", pd |-> pd, out |-> out]
    ELSE LET lc == logicalChannels[i]
         IN  IF ~Has(Get(pd, lc), "physChan")
             THEN [err |-> "KeyError", pd |-> pd, out |-> out]
             ELSE LET chan == Get(Get(pd, lc), "physChan")
                  IN  IF ~(chan.t = "str" /\ Has(pd, chan.s))
                      THEN Channel_move_SSBFreq(pd, logicalChannels, i + 1,
                               Append(out, "Error: Physical Channel not found."))
                      ELSE IF ~In("SSBFreq", Get(pd, chan.s))
                      THEN Channel_move_SSBFreq(pd, logicalChannels, i + 1,
                               Append(out, "Warning: did not find SSBFreq for PhysicalChannel"))
                      ELSE Channel_move_SSBFreq(
                               DelIn(PutIn(pd, lc, "frequency",
                                           Get(Get(pd, chan.s), "SSBFreq")),
                                     chan.s, "SSBFreq"),
                               logicalChannels, i + 1, out)

RECURSIVE Channel_copy_SSBFreq(_, _, _, _)
Channel_copy_SSBFreq(pd, logicalChannels, i, out) ==
    IF i > Len(logicalChannels) THEN [err |-> "none", pd |-> pd, out |-> out]
    ELSE LET lc == logicalChannels[i]
         IN  IF ~Has(Get(pd, lc), "physChan")
             THEN [err |-> "KeyError", pd |-> pd, out |-> out]
             ELSE LET chan == Get(Get(pd, lc), "physChan")
                  IN  IF ~(chan.t = "str" /\ Has(pd, chan.s))
                      THEN Channel_copy_SSBFreq(pd, logicalChannels, i + 1,
                               Append(out, "Error: Physical Channel not found."))
                      ELSE IF ~In("SSBFreq", Get(pd, chan.s))
                      THEN Channel_copy_SSBFreq(pd, logicalChannels, i + 1,
                               Append(out, "Warning: did not find SSBFreq for PhysicalChannel"))
                      ELSE LET frequency == Get(Get(pd, chan.s), "SSBFreq")
                           IN  Channel_copy_SSBFreq(PutIn(pd, lc, "frequency", frequency),
                                                    logicalChannels, i + 1, out)

\* phase 2, from the i-th quadrature channel on: delete the data
RECURSIVE Channel_delete_SSBFreq(_, _, _)
Channel_delete_SSBFreq(pd, iqChannels, i) ==
    IF i > Len(iqChannels) THEN pd
    ELSE LET iq == iqChannels[i]
         IN  IF ~Has(Get(pd, iq), "SSBFreq")
             THEN Channel_delete_SSBFreq(pd, iqChannels, i + 1)
             ELSE Channel_delete_SSBFreq(DelIn(pd, iq, "SSBFreq"), iqChannels, i + 1)

Channel_1_to_2(jd, pd) ==
    LET logicalChannels == get_items_matching_class(pd, ClassList(<<"Qubit", "Measurement">>))
        c == Channel_copy_SSBFreq(pd, logicalChannels, 1, <<>>)
    IN  IF c.err # "none"
        THEN Outcome(c.err, jd, c.pd, FALSE, c.out, <<>>)
        ELSE LET iqChannels == get_items_matching_class(c.pd,
                                   ClassList(<<"PhysicalQuadratureChannel">>))
             IN  Outcome("none", jd, Channel_delete_SSBFreq(c.pd, iqChannels, 1),
                         FALSE, c.out, <<>>)

ChannelMigrator_version_1_to_2 ==
    /\ pc = "loop"
    /\ iteration("ChannelMigrator", 1, Channel_1_to_2(jsonDict, primaryDict))

(***************************************************************************)
(* ChannelMigrator.version_2_to_3                                          *)
(* Set default digitizer trigger to digitizerTrig                          *)
(***************************************************************************)
RECURSIVE Channel_set_trigChan(_, _, _)
Channel_set_trigChan(pd, measChannels, i) ==
    IF i > Len(measChannels) THEN pd
    ELSE LET mc == measChannels[i]
         IN  IF Has(Get(pd, mc), "trigChan") /\ Get(Get(pd, mc), "trigChan") # JStr("")
             THEN Channel_set_trigChan(pd, measChannels, i + 1)
             ELSE Channel_set_trigChan(PutIn(pd, mc, "trigChan", JStr("digitizerTrig")),
                                       measChannels, i + 1)

\* the step without its test of the present value: every trigger is overwritten
Channel_2_to_3_overwrite(jd, pd) ==
    Outcome("none", jd,
            JDict(pd.k, [name \in DOMAIN pd.d |->
                            IF is_class(pd.d[name], ClassName("Measurement"))
                            THEN Put(pd.d[name], "trigChan", JStr("digitizerTrig"))
                            ELSE pd.d[name]]),
            FALSE, <<>>, <<>>)

Channel_2_to_3(jd, pd) ==
    LET measChannels == get_items_matching_class(pd, ClassName("Measurement"))
    IN  Outcome("none", jd, Channel_set_trigChan(pd, measChannels, 1), FALSE, <<>>, <<>>)

ChannelMigrator_version_2_to_3 ==
    /\ pc = "loop"
    /\ iteration("ChannelMigrator", 2, Channel_2_to_3(jsonDict, primaryDict))

(***************************************************************************)
(* ChannelMigrator.version_3_to_4                                          *)
(***************************************************************************)
\* what the operator may type at a prompt
Responses == {"1", "2", "3", "x"}

\* responsemap with a default for any other answer
responsemap_default == [r \in {"1", "2", "3", "x"} |->
                           CASE r = "1" -> "APSPattern"
                             [] r = "2" -> "APS2Pattern"
                             [] r = "3" -> "TekPattern"
                             [] r = "x" -> "APSPattern"]

responsemap == [r \in {"1", "2", "3"} |->
                   CASE r = "1" -> "APSPattern"
                     [] r = "2" -> "APS2Pattern"
                     [] r = "3" -> "TekPattern"]

\* first loop, from the i-th physical channel on: AWGs.add(ch['AWG']) if ch['AWG']
RECURSIVE Channel_collect_AWGs(_, _, _, _)
Channel_collect_AWGs(pd, physChans, i, AWGs) ==
    IF i > Len(physChans) THEN [err |-> "none", AWGs |-> AWGs]
    ELSE LET ch == Get(pd, physChans[i])
         IN  IF ~Has(ch, "AWG") THEN [err |-> "KeyError", AWGs |-> AWGs]
             ELSE Channel_collect_AWGs(pd, physChans, i + 1,
                      IF Truthy(Get(ch, "AWG")) THEN AWGs \cup {Get(ch, "AWG").s} ELSE AWGs)

\* second loop, from the i-th AWG of the iteration order on: ask and record
RECURSIVE Channel_ask(_, _, _, _, _)
Channel_ask(order, response, i, awgmap, asked) ==
    IF i > Len(order) THEN [err |-> "none", awgmap |-> awgmap, asked |-> asked]
    ELSE LET awg == order[i]
             asked1 == Append(asked, [awg |-> awg, response |-> response[awg]])
         IN  IF response[awg] \notin DOMAIN responsemap
             THEN [err |-> "NameError", awgmap |-> awgmap, asked |-> asked1]
             ELSE Channel_ask(order, response, i + 1,
                      [a \in DOMAIN awgmap \cup {awg} |->
                          IF a = awg THEN responsemap[response[awg]] ELSE awgmap[a]],
                      asked1)

\* third loop, from the i-th physical channel on: ch['translator'] = awgmap[ch['AWG']]
RECURSIVE Channel_set_translator(_, _, _, _)
Channel_set_translator(pd, physChans, i, awgmap) ==
    IF i > Len(physChans) THEN [err |-> "none", pd |-> pd]
    ELSE LET name == physChans[i]
             awg == Get(Get(pd, name), "AWG")
         IN  IF ~(awg.t = "str" /\ awg.s \in DOMAIN awgmap)
             THEN [err |-> "KeyError", pd |-> pd]
             ELSE Channel_set_translator(PutIn(pd, name, "translator", JStr(awgmap[awg.s])),
                                         physChans, i + 1, awgmap)

Channel_physChans(pd) ==
    get_items_matching_class(pd,
        ClassList(<<"PhysicalQuadratureChannel", "PhysicalMarkerChannel">>))

\* the set AWGs built by the first loop (empty when that loop raises)
Channel_AWGs(pd) ==
    LET c == Channel_collect_AWGs(pd, Channel_physChans(pd), 1, {})
    IN  IF c.err = "none" THEN c.AWGs ELSE {}

\* order: the order in which "for awg in AWGs" visits the set;
\* response: what input() returns at the prompt for each AWG
Channel_3_to_4(jd, pd, order, response) ==
    LET jd1 == Put(jd, "x__module__", JStr("QGL.ChannelLibrary"))
        banner == <<"PhysicalChannels have a new 'translator' attribute">>
        physChans == Channel_physChans(pd)
        c == Channel_collect_AWGs(pd, physChans, 1, {})
    IN  IF c.err # "none"
        THEN Outcome(c.err, jd1, pd, FALSE, banner, <<>>)
        ELSE LET a == Channel_ask(order, response, 1, <<>>, <<>>)
             IN  IF a.err # "none"
                 THEN Outcome(a.err, jd1, pd, FALSE, banner, a.asked)
                 ELSE LET w == Channel_set_translator(pd, physChans, 1, a.awgmap)
                      IN  Outcome(w.err, jd1, w.pd, FALSE, banner, a.asked)

ChannelMigrator_version_3_to_4 ==
    /\ pc = "loop"
    /\ family = "ChannelMigrator"
    /\ \E order \in Orders(Channel_AWGs(primaryDict)) :
         \E response \in [Channel_AWGs(primaryDict) -> Responses] :
             iteration("ChannelMigrator", 3,
                       Channel_3_to_4(jsonDict, primaryDict, order, response))

(***************************************************************************)
(* InstrumentMigrator.version_1_to_2: Change Labbrick64 class to Labbrick  *)
(***************************************************************************)
RECURSIVE Instrument_set_class(_, _, _, _)
Instrument_set_class(pd, names, i, cls) ==
    IF i > Len(names) THEN pd
    ELSE Instrument_set_class(PutIn(pd, names[i], "x__class__", JStr(cls)), names, i + 1, cls)

Instrument_1_to_2(jd, pd) ==
    LET lb64 == get_items_matching_class(pd, ClassList(<<"Labbrick64">>))
    IN  Outcome("none", jd, Instrument_set_class(pd, lb64, 1, "Labbrick"), FALSE, <<>>, <<>>)

InstrumentMigrator_version_1_to_2 ==
    /\ pc = "loop"
    /\ iteration("InstrumentMigrator", 1, Instrument_1_to_2(jsonDict, primaryDict))

(***************************************************************************)
(* InstrumentMigrator.version_2_to_3: Follow X6 channel schema change      *)
(***************************************************************************)
\* body of the inner loop for one channel record
Instrument_X6_channel(channel) ==
    IF ~Has(channel, "enableResultStream") THEN [err |-> "KeyError", ch |-> channel]
    ELSE LET c1 == Put(channel, "enableDemodResultStream", Get(channel, "enableResultStream"))
             c2 == Put(c1, "enableRawResultStream", Get(c1, "enableResultStream"))
         IN  IF ~Has(c2, "kernel") THEN [err |-> "KeyError", ch |-> c2]
             ELSE LET c3 == Put(c2, "demodKernel", Get(c2, "kernel"))
                      c4 == Put(c3, "rawKernel", JStr(""))
                  IN  [err |-> "none", ch |-> Del(Del(c4, "enableResultStream"), "kernel")]

\* inner loop, from the i-th channel of the X6 on
RECURSIVE Instrument_X6_channels(_, _)
Instrument_X6_channels(channels, i) ==
    IF i > Len(channels.k) THEN [err |-> "none", chs |-> channels]
    ELSE LET r == Instrument_X6_channel(Get(channels, channels.k[i]))
             chs1 == Put(channels, channels.k[i], r.ch)
         IN  IF r.err # "none" THEN [err |-> r.err, chs |-> chs1]
             ELSE Instrument_X6_channels(chs1, i + 1)

\* outer loop, from the i-th X6 on
RECURSIVE Instrument_X6_scopes(_, _, _)
Instrument_X6_scopes(pd, scopes, i) ==
    IF i > Len(scopes) THEN [err |-> "none", pd |-> pd]
    ELSE LET x6 == scopes[i]
         IN  IF ~Has(Get(pd, x6), "channels") THEN [err |-> "KeyError", pd |-> pd]
             ELSE LET r == Instrument_X6_channels(Get(Get(pd, x6), "channels"), 1)
                      pd1 == PutIn(pd, x6, "channels", r.chs)
                  IN  IF r.err # "none" THEN [err |-> r.err, pd |-> pd1]
                      ELSE Instrument_X6_scopes(pd1, scopes, i + 1)

Instrument_2_to_3(jd, pd) ==
    LET scopes == get_items_matching_class(pd, ClassList(<<"X6">>))
        r == Instrument_X6_scopes(pd, scopes, 1)
    IN  Outcome(r.err, jd, r.pd, FALSE, <<>>, <<>>)

InstrumentMigrator_version_2_to_3 ==
    /\ pc = "loop"
    /\ iteration("InstrumentMigrator", 2, Instrument_2_to_3(jsonDict, primaryDict))

(***************************************************************************)
(* InstrumentMigrator.version_3_to_4: Convert to snake case                *)
(***************************************************************************)
\* loop over the X6 entities, from the i-th on
RECURSIVE Instrument_X6_acquire_mode(_, _, _)
Instrument_X6_acquire_mode(pd, scopes, i) ==
    IF i > Len(scopes) THEN [err |-> "none", pd |-> pd]
    ELSE LET x6 == scopes[i]
         IN  IF ~Has(Get(pd, x6), "digitizer_mode") THEN [err |-> "KeyError", pd |-> pd]
             ELSE LET mode == Get(Get(pd, x6), "digitizer_mode")
                      pd1 == PutIn(DelIn(pd, x6, "digitizer_mode"), x6, "acquire_mode", mode)
                  IN  IF ~Has(Get(pd1, x6), "channels") THEN [err |-> "KeyError", pd |-> pd1]
                      ELSE Instrument_X6_acquire_mode(DelIn(pd1, x6, "channels"), scopes, i + 1)

Instrument_3_to_4(jd, pd) ==
    LET pd1 == rec_snakeify(pd, 1, 0)
        scopes == get_items_matching_class(pd1, ClassList(<<"X6">>))
        r == Instrument_X6_acquire_mode(pd1, scopes, 1)
    IN  IF r.err # "none" THEN Outcome(r.err, jd, r.pd, TRUE, <<>>, <<>>)
        ELSE LET yokogawas == get_items_matching_class(r.pd, ClassList(<<"YokoGS200">>))
             IN  Outcome("none", jd,
                         Instrument_set_class(r.pd, yokogawas, 1, "YokogawaGS200"),
                         TRUE, <<>>, <<>>)

InstrumentMigrator_version_3_to_4 ==
    /\ pc = "loop"
    /\ iteration("InstrumentMigrator", 3, Instrument_3_to_4(jsonDict, primaryDict))

(***************************************************************************)
(* MeasurementMigrator.version_1_to_2                                      *)
(***************************************************************************)
dropped_keys == <<"plot_mode", "plot_scope", "records_file_path", "save_records", "saved">>

value_changes == [c \in {"KernelIntegration", "DigitalDemod", "RawStream"} |->
                     CASE c = "KernelIntegration" -> "KernelIntegrator"
                       [] c = "DigitalDemod"      -> "Channelizer"
                       [] c = "RawStream"         -> "AlazarStreamSelector"]

key_changes == [k \in {"i_ffreq", "decim_factor1", "decim_factor2", "decim_factor3"} |->
                   CASE k = "i_ffreq"       -> "if_freq"
                     [] k = "decim_factor1" -> "decim_factor_1"
                     [] k = "decim_factor2" -> "decim_factor_2"
                     [] k = "decim_factor3" -> "decim_factor_3"]

\* record.pop(key) for each of the dropped keys the record has
RECURSIVE Measurement_pop_keys(_, _)
Measurement_pop_keys(meas, i) ==
    IF i > Len(dropped_keys) THEN meas
    ELSE Measurement_pop_keys(IF Has(meas, dropped_keys[i]) THEN Del(meas, dropped_keys[i])
                              ELSE meas, i + 1)

\* first loop, from the i-th entity on; print(meas.keys()) needs a dict
RECURSIVE Measurement_drop(_, _, _)
Measurement_drop(pd, i, out) ==
    IF i > Len(pd.k) THEN [err |-> "none", pd |-> pd, out |-> out]
    ELSE LET meas == Get(pd, pd.k[i])
         IN  IF meas.t # "dict" THEN [err |-> "AttributeError", pd |-> pd, out |-> out]
             ELSE Measurement_drop(Put(pd, pd.k[i], Measurement_pop_keys(meas, 1)),
                                   i + 1, Append(out, "dict_keys"))

\* the renames of the inner loop over the keys the record had when the loop started
RECURSIVE Measurement_rename_keys(_, _, _)
Measurement_rename_keys(meas, keys, i) ==
    IF i > Len(keys) THEN meas
    ELSE LET prop_name == keys[i]
         IN  Measurement_rename_keys(
                 IF prop_name \in DOMAIN key_changes /\ Has(meas, prop_name)
                 THEN Put(Del(meas, prop_name), key_changes[prop_name], Get(meas, prop_name))
                 ELSE meas,
                 keys, i + 1)

\* second loop, from the i-th entity on.  The inner loop changes the keys
\* of the dict it iterates: with strict a dict iterator that detects it
\* raises once the keys the record had are exhausted, otherwise the
\* iteration is over a snapshot of the keys and completes.
RECURSIVE Measurement_rename(_, _, _)
Measurement_rename(pd, i, strict) ==
    IF i > Len(pd.k) THEN [err |-> "none", pd |-> pd]
    ELSE LET meas_name == pd.k[i]
             meas == Get(pd, meas_name)
         IN  IF meas.t # "dict" THEN [err |-> "TypeError", pd |-> pd]
             ELSE IF ~Has(meas, "x__class__") THEN [err |-> "KeyError", pd |-> pd]
             ELSE LET cls == Get(meas, "x__class__")
                      m1 == IF cls.t = "str" /\ cls.s \in DOMAIN value_changes
                            THEN Put(meas, "x__class__", JStr(value_changes[cls.s]))
                            ELSE meas
                      m2 == Measurement_rename_keys(m1, m1.k, 1)
                      pd1 == Put(pd, meas_name, m2)
                  IN  IF strict /\ DOMAIN m1.d \cap DOMAIN key_changes # {}
                      THEN [err |-> "RuntimeError", pd |-> pd1]
                      ELSE Measurement_rename(pd1, i + 1, strict)

\* int(value)
IntLiterals == [s \in {"1", "2"} |-> IF s = "1" THEN 1 ELSE 2]

\* third loop, from the i-th AlazarStreamSelector on
RECURSIVE Measurement_int_channel(_, _, _)
Measurement_int_channel(pd, alazar_streams, i) ==
    IF i > Len(alazar_streams) THEN [err |-> "none", pd |-> pd]
    ELSE LET als == alazar_streams[i]
         IN  IF ~Has(Get(pd, als), "channel") THEN [err |-> "KeyError", pd |-> pd]
             ELSE LET c == Get(Get(pd, als), "channel")
                  IN  IF c.t = "int"
                      THEN Measurement_int_channel(pd, alazar_streams, i + 1)
                      ELSE IF c.t = "str" /\ c.s \in DOMAIN IntLiterals
                      THEN Measurement_int_channel(
                               PutIn(pd, als, "channel", JInt(IntLiterals[c.s])),
                               alazar_streams, i + 1)
                      ELSE [err |-> IF c.t = "str" THEN "ValueError" ELSE "TypeError", pd |-> pd]

Measurement_1_to_2(jd, pd, strict) ==
    LET pd1 == rec_snakeify(pd, 1, 0)
        a == Measurement_drop(pd1, 1, <<>>)
    IN  IF a.err # "none" THEN Outcome(a.err, jd, a.pd, TRUE, a.out, <<>>)
        ELSE LET b == Measurement_rename(a.pd, 1, strict)
             IN  IF b.err # "none" THEN Outcome(b.err, jd, b.pd, TRUE, a.out, <<>>)
                 ELSE LET alazar_streams == get_items_matching_class(b.pd,
                                                ClassName("AlazarStreamSelector"))
                          c == Measurement_int_channel(b.pd, alazar_streams, 1)
                      IN  Outcome(c.err, jd, c.pd, TRUE, a.out, <<>>)

MeasurementMigrator_version_1_to_2 ==
    /\ pc = "loop"
    /\ \E strict \in BOOLEAN :
           iteration("MeasurementMigrator", 1,
                     Measurement_1_to_2(jsonDict, primaryDict, strict))

(***************************************************************************)
(* migrate_all                                                             *)
(***************************************************************************)
\* the list with two migrators exchanged
migrators_exchanged == <<"SweepMigrator", "InstrumentMigrator", "MeasurementMigrator">>

migrators == <<"InstrumentMigrator", "SweepMigrator", "MeasurementMigrator">>

\* list(itertools.chain(*messages))
RECURSIVE chain(_)
chain(lists) == IF lists = <<>> THEN <<>> ELSE Head(lists) \o chain(Tail(lists))

\* messages.append(msg) after m.migrate() returned, then the next turn of the loop
migrate_all_step ==
    /\ idx \in 1..Len(migrators)
    /\ pc = "returned"
    /\ allMessages' = Append(allMessages, returned.e)
    /\ idx' = idx + 1
    /\ IF idx < Len(migrators)
       THEN \* m = migrator(filename); m.migrate()
            /\ family' = migrators[idx + 1]
            /\ pc' = "start"
            /\ jsonDict' = None
            /\ primaryDict' = None
            /\ aliased' = FALSE
            /\ messages' = <<>>
            /\ returned' = None
            /\ applied' = <<>>
       ELSE /\ pc' = "chain"
            /\ UNCHANGED <<family, jsonDict, primaryDict, aliased, messages, returned, applied>>
    /\ UNCHANGED <<files, err, console, prompts, io, startFiles, runs, batchResult,
                   previous, filterVars, pureVars>>

migrate_all_return ==
    /\ pc = "chain"
    /\ batchResult' = [t |-> "list", e |-> chain(allMessages)]
    /\ pc' = "batch_returned"
    /\ UNCHANGED <<files, family, jsonDict, primaryDict, aliased, messages, err, returned,
                   console, prompts, io, applied, startFiles, runs, idx, allMessages,
                   previous, filterVars, pureVars>>

(***************************************************************************)
(* A further migrate() call on the same file, by a new migrator object     *)
(***************************************************************************)
migrate_again ==
    /\ idx = 0
    /\ pc \in {"returned", "raised"}
    /\ runs < MaxRuns
    /\ runs' = runs + 1
    /\ startFiles' = files
    /\ pc' = "start"
    /\ jsonDict' = None
    /\ primaryDict' = None
    /\ aliased' = FALSE
    /\ messages' = <<>>
    /\ err' = "none"
    /\ returned' = None
    /\ console' = <<>>
    /\ prompts' = <<>>
    /\ io' = <<>>
    /\ applied' = <<>>
    /\ previous' = (IF \E i \in 1..Len(io) : io[i].op = "w" THEN "saved" ELSE pc)
    /\ UNCHANGED <<files, family, idx, allMessages, batchResult, filterVars, pureVars>>

(***************************************************************************)
(* The documents the runs start from                                       *)
(***************************************************************************)
\* an entity that may be absent: the dict items it contributes
Opt(name, records) == {<<>>} \cup {<<<<name, r>>>> : r \in records}

Field(name, value) == <<name, JStr(value)>>

\* Instrument library
Yoko == Lit(<<Field("x__class__", "YokoGS200"), Field("SomeField", "v")>>)
Labbrick == Lit(<<Field("x__class__", "Labbrick64"), Field("address", "a")>>)
X6Channel(fields) == Lit(<< <<"s11", Lit(fields)>> >>)
X6(fields) == Lit(<<Field("x__class__", "X6")>> \o fields)
X6Records ==
    { X6(<<Field("digitizerMode", "averager"),
           <<"channels", X6Channel(<<Field("enableResultStream", "1"), Field("kernel", "k")>>)>> >>),
      X6(<<Field("digitizerMode", "averager"),
           <<"channels", X6Channel(<<Field("enableResultStream", "1")>>)>> >>),
      X6(<<Field("digitizerMode", "averager")>>),
      X6(<< <<"channels", X6Channel(<<Field("enableResultStream", "1"), Field("kernel", "k")>>)>> >>) }

InstrumentDicts ==
    {Lit(a \o b \o c) : a \in Opt("yoko", {Yoko}), b \in Opt("scope", X6Records),
                        c \in Opt("lb", {Labbrick})}

\* Channel library
Qubits == {Lit(<<Field("x__class__", "Qubit"), Field("physChan", p)>>) : p \in {"p1", "nowhere"}}
Measurements ==
    {Lit(<<Field("x__class__", "Measurement"), Field("physChan", "p1")>> \o trig) :
        trig \in {<<>>, <<Field("trigChan", "")>>, <<Field("trigChan", "custom")>>}}
    \cup {Lit(<<Field("x__class__", "Measurement")>>)}
Quadratures ==
    {Lit(<<Field("x__class__", "PhysicalQuadratureChannel")>> \o ssb \o awg) :
        ssb \in {<<>>, <<Field("SSBFreq", "10e6")>>},
        awg \in {<<Field("AWG", "awg1")>>}}
    \cup {Lit(<<Field("x__class__", "PhysicalQuadratureChannel"), Field("SSBFreq", "10e6")>> \o awg) :
        awg \in {<<>>, <<Field("AWG", "")>>}}
Markers ==
    {Lit(<<Field("x__class__", "PhysicalMarkerChannel"), Field("AWG", a)>>) : a \in {"awg1", "awg2"}}

ChannelDicts ==
    {Lit(a \o b \o c \o d) : a \in Opt("q1", Qubits), b \in Opt("p1", Quadratures),
                             c \in Opt("m1", Measurements), d \in Opt("k1", Markers)}

\* Sweep library
SweepDicts ==
    {Lit(a \o b) : a \in Opt("s1", {Lit(<<Field("x__class__", "Frequency"), Field("numPoints", "2")>>)}),
                   b \in Opt("note", {JStr("text")})}

\* Measurement filter library
FilterDicts ==
    {Lit(a \o b \o c) :
        a \in Opt("M1", {Lit(<<Field("IFfreq", "10e6"), Field("x__class__", "DigitalDemod"),
                               Field("plotMode", "amp")>>)}),
        b \in Opt("K1", {Lit(<<Field("x__class__", "KernelIntegration"), Field("boxCarStart", "1")>>),
                         Lit(<<Field("boxCarStart", "1")>>)}),
        c \in Opt("R1", {Lit(<<Field("x__class__", "RawStream")>> \o ch) :
                            ch \in {<<>>, <<Field("channel", "1")>>, <<Field("channel", "x")>>}})}

PrimaryDicts(cls) ==
    CASE cls = "InstrumentMigrator"  -> InstrumentDicts
      [] cls = "ChannelMigrator"     -> ChannelDicts
      [] cls = "SweepMigrator"       -> SweepDicts
      [] cls = "MeasurementMigrator" -> FilterDicts

\* the version field: absent, or an integer around the range of the class
Versions(cls) ==
    {<<>>} \cup {<< <<"version", JInt(v)>> >> :
                    v \in (0 - VersionSlack)..(max_version(cls) + VersionSlack)}

\* documents that pass json_input_validate
ValidDocuments(cls) ==
    {Lit(<<Field("x__class__", libraryClass(cls))>> \o v \o << <<primaryKey(cls), pd>> >>) :
        v \in Versions(cls), pd \in PrimaryDicts(cls)}

OtherClass(cls) == IF cls = "SweepMigrator" THEN "ChannelLibrary" ELSE "SweepLibrary"

\* documents that do not: no tag, another tag, the tag under the legacy
\* spelling of the field, or no primary dictionary
InvalidDocuments(cls) ==
    {Lit(tag \o v \o << <<primaryKey(cls), pd>> >>) :
        tag \in {<<>>, <<Field("x__class__", OtherClass(cls))>>,
                 <<Field("__class__", libraryClass(cls))>>},
        v \in {<<>>, << <<"version", JInt(max_version(cls))>> >>},
        pd \in {EmptyDict}}
    \cup {Lit(<<Field("x__class__", libraryClass(cls))>> \o v) :
        v \in {<<>>, << <<"version", JInt(0)>> >>}}

FileContents(cls) ==
    {Missing, Garbage, JsonFile(JList), JsonFile(JStr("text"))}
    \cup {JsonFile(d) : d \in ValidDocuments(cls) \cup InvalidDocuments(cls)}

(***************************************************************************)
(* Spec: migrate() called on one file, up to MaxRuns times                 *)
(***************************************************************************)
Init ==
    /\ family \in Classes
    /\ \E f \in FileContents(family) :
           files = [c \in Classes |-> IF c = family THEN f ELSE Missing]
    /\ startFiles = files
    /\ jsonDict = None
    /\ primaryDict = None
    /\ aliased = FALSE
    /\ messages = <<>>
    /\ pc = "start"
    /\ err = "none"
    /\ returned = None
    /\ console = <<>>
    /\ prompts = <<>>
    /\ io = <<>>
    /\ applied = <<>>
    /\ runs = 1
    /\ idx = 0
    /\ allMessages = <<>>
    /\ batchResult = None
    /\ previous = "none"
    /\ classesArg = None
    /\ matching = <<>>
    /\ arg = None
    /\ results = <<>>

Next ==
    \/ load
    \/ version_0_to_1
    \/ InstrumentMigrator_version_1_to_2
    \/ InstrumentMigrator_version_2_to_3
    \/ InstrumentMigrator_version_3_to_4
    \/ ChannelMigrator_version_1_to_2
    \/ ChannelMigrator_version_2_to_3
    \/ ChannelMigrator_version_3_to_4
    \/ MeasurementMigrator_version_1_to_2
    \/ missing_step
    \/ save
    \/ migrate_again

Spec == Init /\ [][Next]_vars

(***************************************************************************)
(* SpecAll: migrate_all(config) on the three files of the configuration    *)
(***************************************************************************)
BatchDicts(cls) ==
    CASE cls = "InstrumentMigrator" ->
           {Lit(<< <<"yoko", Yoko>>, <<"scope", x>>, <<"lb", Labbrick>> >>) :
               x \in {r \in X6Records : Has(r, "digitizerMode") /\ Has(r, "channels")}}
      [] cls = "SweepMigrator" -> {d \in SweepDicts : Len(d.k) = 1}
      [] cls = "MeasurementMigrator" ->
           {d \in FilterDicts : Len(d.k) = 1 /\ (Has(d, "K1") \/ Has(d, "M1"))}
      [] OTHER -> {}

BatchFiles(cls) ==
    {Missing, Garbage,
     JsonFile(Lit(<<Field("x__class__", OtherClass(cls)), <<primaryKey(cls), EmptyDict>> >>))}
    \cup {JsonFile(Lit(<<Field("x__class__", libraryClass(cls))>> \o v \o
                       << <<primaryKey(cls), pd>> >>)) :
             v \in Versions(cls), pd \in BatchDicts(cls)}

InitAll ==
    /\ idx = 1
    /\ family = migrators[1]
    /\ \E fi \in BatchFiles("InstrumentMigrator") :
       \E fs \in BatchFiles("SweepMigrator") :
       \E fm \in BatchFiles("MeasurementMigrator") :
           files = [c \in Classes |->
                       CASE c = "InstrumentMigrator"  -> fi
                         [] c = "SweepMigrator"       -> fs
                         [] c = "MeasurementMigrator" -> fm
                         [] OTHER -> Missing]
    /\ startFiles = files
    /\ jsonDict = None
    /\ primaryDict = None
    /\ aliased = FALSE
    /\ messages = <<>>
    /\ pc = "start"
    /\ err = "none"
    /\ returned = None
    /\ console = <<>>
    /\ prompts = <<>>
    /\ io = <<>>
    /\ applied = <<>>
    /\ runs = 1
    /\ allMessages = <<>>
    /\ batchResult = None
    /\ previous = "none"
    /\ classesArg = None
    /\ matching = <<>>
    /\ arg = None
    /\ results = <<>>

NextAll ==
    \/ load
    \/ version_0_to_1
    \/ InstrumentMigrator_version_1_to_2
    \/ InstrumentMigrator_version_2_to_3
    \/ InstrumentMigrator_version_3_to_4
    \/ MeasurementMigrator_version_1_to_2
    \/ missing_step
    \/ save
    \/ migrate_all_step
    \/ migrate_all_return

SpecAll == InitAll /\ [][NextAll]_vars

(***************************************************************************)
(* SpecFilter: get_items_matching_class called on an unmodified primary    *)
(* dictionary                                                              *)
(***************************************************************************)
MaxCalls == 2

FilterEntities ==
    {JStr("text"), JList,
     Lit(<<Field("physChan", "p1")>>),
     Lit(<< <<"x__class__", JInt(1)>> >>)}
    \cup {Lit(<<Field("x__class__", c)>>) : c \in {"Qubit", "Measurement", "qubit", "Qubit2"}}

FilterDictInputs ==
    {Lit(a \o b \o c) : a \in Opt("q2", FilterEntities), b \in Opt("q1", FilterEntities),
                        c \in Opt("m1", FilterEntities)}

FilterClassInputs ==
    {ClassName("Qubit"), ClassName("Measurement")}
    \cup {ClassList(l) : l \in {<<>>, <<"Qubit">>, <<"Qubit", "Measurement">>,
                                <<"Measurement", "Qubit2">>, <<"X6">>}}

InitFilter ==
    /\ primaryDict \in FilterDictInputs
    /\ classesArg \in FilterClassInputs
    /\ matching = <<>>
    /\ pc = "filter"
    /\ family = "ChannelMigrator"
    /\ files = [c \in Classes |-> Missing]
    /\ startFiles = files
    /\ jsonDict = None
    /\ aliased = FALSE
    /\ messages = <<>>
    /\ err = "none"
    /\ returned = None
    /\ console = <<>>
    /\ prompts = <<>>
    /\ io = <<>>
    /\ applied = <<>>
    /\ runs = 1
    /\ idx = 0
    /\ allMessages = <<>>
    /\ batchResult = None
    /\ previous = "none"
    /\ arg = None
    /\ results = <<>>

call_get_items_matching_class ==
    /\ pc = "filter"
    /\ Len(matching) < MaxCalls
    /\ matching' = Append(matching, get_items_matching_class(primaryDict, classesArg))
    /\ UNCHANGED <<files, family, jsonDict, primaryDict, aliased, messages, pc, err,
                   returned, console, prompts, io, applied, startFiles, runs,
                   idx, allMessages, batchResult, previous, classesArg, pureVars>>

NextFilter == call_get_items_matching_class

SpecFilter == InitFilter /\ [][NextFilter]_vars

(***************************************************************************)
(* Calls of the pure functions.  No migrator is at work: its variables     *)
(* keep the values of NoMigration, arg holds the arguments of the call and *)
(* results the values returned.                                            *)
(***************************************************************************)
migrationVars == <<files, family, jsonDict, primaryDict, aliased, messages, pc, err,
                   returned, console, prompts, io, applied, startFiles, runs,
                   idx, allMessages, batchResult, previous, filterVars>>

NoMigration ==
    /\ files = [c \in Classes |-> Missing]
    /\ startFiles = files
    /\ family = "ChannelMigrator"
    /\ jsonDict = None
    /\ primaryDict = None
    /\ aliased = FALSE
    /\ messages = <<>>
    /\ err = "none"
    /\ returned = None
    /\ console = <<>>
    /\ prompts = <<>>
    /\ io = <<>>
    /\ applied = <<>>
    /\ runs = 1
    /\ idx = 0
    /\ allMessages = <<>>
    /\ batchResult = None
    /\ previous = "none"
    /\ classesArg = None
    /\ matching = <<>>

(***************************************************************************)
(* rec_snakeify(dictionary, start_level) called on nested mappings         *)
(***************************************************************************)
MaxDepth == 2         \* mappings nested up to this depth below the top level
MaxWidth == 2         \* entries of one mapping
MaxStartLevel == 3    \* start_level ranges over 0 .. MaxStartLevel

\* a JSON array with its items
JListOf(items) == [t |-> "list", e |-> items]

\* the keys of the mappings: two of them have the same snakeified form
RecKeys == <<"Outer", "InnerKey", "inner_key">>

\* an array that holds a mapping
RecArray == JListOf(<<Lit(<<<<"InnerKey", JInt(1)>>>>)>>)

\* values that are not mappings
RecLeaves == {JInt(1), RecArray}

\* the key rows of a mapping: at most MaxWidth keys, in the order of RecKeys
RecKeyRows ==
    LET rows == UNION {[1..m -> 1..Len(RecKeys)] : m \in 0..MaxWidth}
    IN  {[i \in 1..Len(r) |-> RecKeys[r[i]]] :
            r \in {x \in rows : \A i, j \in 1..Len(x) : i < j => x[i] < x[j]}}

\* the mappings without a nested mapping
RecLeafDicts ==
    UNION {{JDict(ks, f) : f \in [Range(ks) -> RecLeaves]} : ks \in RecKeyRows}

\* mappings nested up to depth levels: one value is a mapping, the others a number
RECURSIVE RecTrees(_)
RecTrees(depth) ==
    IF depth = 0 THEN RecLeafDicts
    ELSE LET T == RecTrees(depth - 1)
         IN  T \cup UNION {{JDict(ks, [key \in Range(ks) |->
                                         IF key = ks[p] THEN sub ELSE JInt(1)]) :
                                p \in 1..Len(ks), sub \in T} :
                            ks \in RecKeyRows \ {<<>>}}

InitRec ==
    /\ NoMigration
    /\ pc = "rec_snakeify"
    /\ arg \in [dictionary : RecTrees(MaxDepth), start_level : 0..MaxStartLevel]
    /\ results = <<>>

\* rec_snakeify(dictionary, start_level), level taking its default 0
call_rec_snakeify ==
    /\ pc = "rec_snakeify"
    /\ results = <<>>
    /\ results' = <<rec_snakeify(arg.dictionary, arg.start_level, 0)>>
    /\ UNCHANGED <<migrationVars, arg>>

NextRec == call_rec_snakeify

SpecRec == InitRec /\ [][NextRec]_vars

(***************************************************************************)
(* snakeify(name) called on names, and again on what it returned           *)
(***************************************************************************)
MaxNameLen == 4       \* characters of a name

\* the characters of the names: capitals, small letters, a digit, the underscore
SnakeAlphabet == {"S", "B", "f", "r", "1", "_"}

\* the names: every string of at most MaxNameLen characters, and two field names
SnakeNames ==
    UNION {[1..n -> SnakeAlphabet] : n \in 0..MaxNameLen}
        \cup {Chars["SSBFreq"], Chars["trigChan"]}

InitSnake ==
    /\ NoMigration
    /\ pc = "snakeify"
    /\ arg \in [name : SnakeNames]
    /\ results = <<>>

\* snakeify(name), then snakeify of the value returned
call_snakeify ==
    /\ pc = "snakeify"
    /\ Len(results) < MaxCalls
    /\ results' = Append(results, snakeifyChars(IF results = <<>>
                                                THEN arg.name
                                                ELSE results[Len(results)]))
    /\ UNCHANGED <<migrationVars, arg>>

NextSnake == call_snakeify

SpecSnake == InitSnake /\ [][NextSnake]_vars

(***************************************************************************)
(* LibraryCoders: LibraryEncoder and LibraryDecoder.                       *)
(* An object is [t |-> "obj", atom, class, module, state]: its class with  *)
(* the module that defines it, whether the class derives from Atom, and    *)
(* its members with their values.  An exception is [t |-> "raise", err].   *)
(***************************************************************************)
Obj(class, module, state) ==
    [t |-> "obj", atom |-> TRUE, class |-> class, module |-> module, state |-> state]

Raise(e) == [t |-> "raise", err |-> e]

\* sys.modules after __import__: the importable modules and the classes they define
sys_modules ==
    [m \in {"QGL.Channels"} |-> {"Qubit", "PhysicalChannel", "Note"}]

\* the members of a default-constructed instance, inst = Class()
Members(class) ==
    CASE class = "Qubit" ->
             Lit(<<<<"label", JStr("")>>, <<"frequency", JInt(0)>>, <<"physChan", None>>>>)
      [] class = "PhysicalChannel" ->
             Lit(<<<<"label", JStr("")>>, <<"AWG", JStr("")>>>>)
      [] class = "Note" ->
             Lit(<<<<"label", JStr("")>>, <<"x__module__", JStr("")>>>>)

\* hasattr(inst, 'update_from_jsondict')
has_update_from_jsondict(class) == class = "Qubit"

\* the first exception among the values of a mapping, in the order of its keys
RECURSIVE FirstRaise(_, _, _)
FirstRaise(keys, map, i) ==
    IF i > Len(keys) THEN None
    ELSE IF map[keys[i]].t = "raise" THEN map[keys[i]]
    ELSE FirstRaise(keys, map, i + 1)

\* LibraryEncoder.default(obj): the exported members and the two injected fields
LibraryEncoder_default(obj) ==
    IF obj.atom
    THEN Put(Put(obj.state, "x__class__", JStr(obj.class)), "x__module__", JStr(obj.module))
    ELSE Raise("TypeError")

\* json.dumps(v, cls=LibraryEncoder) read as JSON: default() is called on what is
\* not a JSON value, and what it returns is encoded in turn
RECURSIVE LibraryEncoder_encode(_)
LibraryEncoder_encode(v) ==
    CASE v.t = "obj" ->
             LET o == LibraryEncoder_default(v)
             IN  IF o.t = "raise" THEN o ELSE LibraryEncoder_encode(o)
      [] v.t = "dict" ->
             LET items == [key \in DOMAIN v.d |-> LibraryEncoder_encode(v.d[key])]
                 r == FirstRaise(v.k, items, 1)
             IN  IF r # None THEN r ELSE JDict(v.k, items)
      [] OTHER -> v

\* inst.update_from_jsondict(jsonDict) and Class(**jsonDict), from the i-th key on
RECURSIVE set_members(_, _, _)
set_members(state, jd, i) ==
    IF i > Len(jd.k) THEN state
    ELSE set_members(Put(state, jd.k[i], jd.d[jd.k[i]]), jd, i + 1)

\* dict_to_obj that reads x__module__ without removing it from the mapping
LibraryDecoder_dict_to_obj_keeps_module(jd) ==
    IF Has(jd, "x__class__") \/ Has(jd, "__class__")
    THEN LET c1  == IF Has(jd, "x__class__") THEN jd.d["x__class__"] ELSE None
             jd1 == Del(jd, "x__class__")
         IN  IF ~Truthy(c1) /\ ~Has(jd1, "__class__") THEN Raise("KeyError")
             ELSE
             LET className == IF Truthy(c1) THEN c1 ELSE jd1.d["__class__"]
                 jd2 == IF Truthy(c1) THEN jd1 ELSE Del(jd1, "__class__")
                 m1  == IF Has(jd2, "x__module__") THEN jd2.d["x__module__"] ELSE None
                 jd3 == jd2
             IN  IF ~Truthy(m1) /\ ~Has(jd3, "__module__") THEN Raise("KeyError")
                 ELSE
                 LET moduleName == IF Truthy(m1) THEN m1 ELSE jd3.d["__module__"]
                     jd4 == IF Truthy(m1) THEN jd3 ELSE Del(jd3, "__module__")
                 IN  IF moduleName.s \notin DOMAIN sys_modules THEN Raise("ImportError")
                     ELSE IF className.s \notin sys_modules[moduleName.s]
                     THEN Raise("AttributeError")
                     ELSE IF has_update_from_jsondict(className.s)
                     THEN Obj(className.s, moduleName.s,
                              set_members(Members(className.s), jd4, 1))
                     ELSE IF DOMAIN jd4.d \subseteq DOMAIN Members(className.s).d
                     THEN Obj(className.s, moduleName.s,
                              set_members(Members(className.s), jd4, 1))
                     ELSE Raise("TypeError")
    ELSE jd

\* LibraryDecoder.dict_to_obj(jsonDict), the object_hook
LibraryDecoder_dict_to_obj(jd) ==
    IF Has(jd, "x__class__") \/ Has(jd, "__class__")
    THEN LET c1  == IF Has(jd, "x__class__") THEN jd.d["x__class__"] ELSE None
             jd1 == Del(jd, "x__class__")
         IN  IF ~Truthy(c1) /\ ~Has(jd1, "__class__") THEN Raise("KeyError")
             ELSE
             LET className == IF Truthy(c1) THEN c1 ELSE jd1.d["__class__"]
                 jd2 == IF Truthy(c1) THEN jd1 ELSE Del(jd1, "__class__")
                 m1  == IF Has(jd2, "x__module__") THEN jd2.d["x__module__"] ELSE None
                 jd3 == Del(jd2, "x__module__")
             IN  IF ~Truthy(m1) /\ ~Has(jd3, "__module__") THEN Raise("KeyError")
                 ELSE
                 LET moduleName == IF Truthy(m1) THEN m1 ELSE jd3.d["__module__"]
                     jd4 == IF Truthy(m1) THEN jd3 ELSE Del(jd3, "__module__")
                 IN  IF moduleName.s \notin DOMAIN sys_modules THEN Raise("ImportError")
                     ELSE IF className.s \notin sys_modules[moduleName.s]
                     THEN Raise("AttributeError")
                     ELSE IF has_update_from_jsondict(className.s)
                     THEN Obj(className.s, moduleName.s,
                              set_members(Members(className.s), jd4, 1))
                     ELSE IF DOMAIN jd4.d \subseteq DOMAIN Members(className.s).d
                     THEN Obj(className.s, moduleName.s,
                              set_members(Members(className.s), jd4, 1))
                     ELSE Raise("TypeError")
    ELSE jd

\* json.loads(text, cls=LibraryDecoder): the hook is called on every mapping,
\* the innermost first
RECURSIVE LibraryDecoder_decode(_)
LibraryDecoder_decode(j) ==
    IF j.t = "dict"
    THEN LET items == [key \in DOMAIN j.d |-> LibraryDecoder_decode(j.d[key])]
             r == FirstRaise(j.k, items, 1)
         IN  IF r # None THEN r ELSE LibraryDecoder_dict_to_obj(JDict(j.k, items))
    ELSE j

\* the values encoded: objects of the three classes, an object that is not an Atom
Labels == {JStr(""), JStr("q1"), JStr("q2")}

PhysicalChannels ==
    {Obj("PhysicalChannel", "QGL.Channels", Lit(<<<<"label", l>>, <<"AWG", a>>>>)) :
        l \in Labels, a \in {JStr(""), JStr("awg1")}}

QubitObjects ==
    {Obj("Qubit", "QGL.Channels",
         Lit(<<<<"label", l>>, <<"frequency", f>>, <<"physChan", p>>>>)) :
        l \in Labels, f \in {JInt(0), JInt(5)}, p \in {None} \cup PhysicalChannels}

\* a class with a member that has the name of an injected field
NoteObjects ==
    {Obj("Note", "QGL.Channels", Lit(<<<<"label", l>>, <<"x__module__", m>>>>)) :
        l \in Labels, m \in {JStr("QGL.Channels"), JStr("elsewhere")}}

NotAnAtom == [Obj("Qubit", "QGL.Channels", Members("Qubit")) EXCEPT !.atom = FALSE]

\* mappings: plain ones, and tagged ones as older and foreign files hold them
CodecMappings ==
    {EmptyDict,
     Lit(<<Field("label", "q1")>>),
     Lit(<<Field("label", "q1"), <<"Outer", Lit(<<Field("label", "")>>)>>>>),
     Lit(<<Field("__module__", "QGL.Channels"), Field("label", "q1")>>),
     Lit(<<Field("__class__", "PhysicalChannel"), Field("__module__", "QGL.Channels"),
           Field("label", "q1")>>),
     Lit(<<Field("x__class__", ""), Field("__class__", "PhysicalChannel"),
           Field("x__module__", "QGL.Channels"), Field("AWG", "awg1")>>),
     Lit(<<Field("x__class__", "PhysicalChannel"), Field("__class__", "Qubit"),
           Field("x__module__", "QGL.Channels")>>),
     Lit(<<Field("__class__", "Qubit")>>),
     Lit(<<Field("x__class__", ""), Field("x__module__", "QGL.Channels")>>),
     Lit(<<Field("x__class__", "Ghost"), Field("x__module__", "QGL.Channels")>>),
     Lit(<<Field("x__class__", "Qubit"), Field("x__module__", "nowhere")>>),
     Lit(<<Field("label", "q1"),
           <<"Outer", Lit(<<Field("x__class__", "Qubit"),
                            Field("x__module__", "nowhere")>>)>>>>)}

CodecInputs ==
    PhysicalChannels \cup QubitObjects \cup NoteObjects \cup {NotAnAtom} \cup CodecMappings

InitCodec ==
    /\ NoMigration
    /\ pc = "codec"
    /\ arg \in [x : CodecInputs]
    /\ results = <<>>

\* json.dumps(x, cls=LibraryEncoder)
encode ==
    /\ pc = "codec"
    /\ results = <<>>
    /\ results' = <<LibraryEncoder_encode(arg.x)>>
    /\ UNCHANGED <<migrationVars, arg>>

\* json.loads(text, cls=LibraryDecoder) on what was written
decode ==
    /\ pc = "codec"
    /\ Len(results) = 1
    /\ results[1].t # "raise"
    /\ results' = Append(results, LibraryDecoder_decode(results[1]))
    /\ UNCHANGED <<migrationVars, arg>>

NextCodec == encode \/ decode

SpecCodec == InitCodec /\ [][NextCodec]_vars

(***************************************************************************)
(* Vocabulary of the properties                                            *)
(***************************************************************************)
\* the family table of the specification (section 6)
TargetVersion(cls) ==
    CASE cls = "InstrumentMigrator"  -> 4
      [] cls = "ChannelMigrator"     -> 4
      [] cls = "SweepMigrator"       -> 1
      [] cls = "MeasurementMigrator" -> 2

FamilyTagClass(cls) ==
    CASE cls = "InstrumentMigrator"  -> "InstrumentLibrary"
      [] cls = "ChannelMigrator"     -> "ChannelLibrary"
      [] cls = "SweepMigrator"       -> "SweepLibrary"
      [] cls = "MeasurementMigrator" -> "MeasFilterLibrary"

FamilyPrimaryKey(cls) ==
    CASE cls = "InstrumentMigrator"  -> "instrDict"
      [] cls = "ChannelMigrator"     -> "channelDict"
      [] cls = "SweepMigrator"       -> "sweepDict"
      [] cls = "MeasurementMigrator" -> "filterDict"

\* the file of class cls held a mapping when the call started
StartsWithMapping(cls) ==
    startFiles[cls].kind = "json" /\ startFiles[cls].val.t = "dict"

\* ... and that mapping carries the expected tag and the primary key
StartsValid(cls) ==
    /\ StartsWithMapping(cls)
    /\ "x__class__" \in DOMAIN startFiles[cls].val.d
    /\ startFiles[cls].val.d["x__class__"] = JStr(FamilyTagClass(cls))
    /\ FamilyPrimaryKey(cls) \in DOMAIN startFiles[cls].val.d

\* the version the document was loaded with, an absent field counting as 0
LoadedVersion(cls) ==
    IF "version" \in DOMAIN startFiles[cls].val.d
    THEN startFiles[cls].val.d["version"].n
    ELSE 0

\* the version field of the document in memory and of the document on disk
MemoryVersion ==
    IF "version" \in DOMAIN jsonDict.d THEN jsonDict.d["version"].n ELSE 0
DiskVersion(cls) ==
    IF "version" \in DOMAIN files[cls].val.d THEN files[cls].val.d["version"].n ELSE 0

InRun == pc \in {"loop", "returned", "raised"}

Writes == {i \in 1..Len(io) : io[i].op = "w"}

EmptyLog == [t |-> "list", e |-> <<>>]

\* same keys and values at every level, whatever the order of the keys
RECURSIVE SameDoc(_, _)
SameDoc(a, b) ==
    IF a.t = "dict" /\ b.t = "dict"
    THEN /\ DOMAIN a.d = DOMAIN b.d
         /\ \A key \in DOMAIN a.d : SameDoc(a.d[key], b.d[key])
    ELSE a = b

(***************************************************************************)
(* C1  Monotonic convergence.  Every family has a step for each version    *)
(* below its target; a run on a validated document loaded at a version v   *)
(* in 0..target applies the steps v, v+1, ... in that order, its version   *)
(* is v plus the number of steps applied and never above the target, it    *)
(* never lacks a step, and when it returns the version in memory and on    *)
(* disk is the target.                                                     *)
(***************************************************************************)
C1_MonotonicConvergence ==
    /\ \A cls \in Classes : \A n \in 0..(TargetVersion(cls) - 1) : HasStep(cls, n)
    /\ (StartsValid(family) /\ LoadedVersion(family) \in 0..TargetVersion(family) /\ InRun) =>
          /\ err # "AttributeError"
          /\ applied = [i \in 1..Len(applied) |-> LoadedVersion(family) + i - 1]
          /\ MemoryVersion = LoadedVersion(family) + Len(applied)
          /\ MemoryVersion <= TargetVersion(family)
          /\ (pc = "returned" =>
                 /\ MemoryVersion = TargetVersion(family)
                 /\ DiskVersion(family) = TargetVersion(family))

\* a Channel document without a version field has gone through all four steps
C1_Witness ==
    /\ family = "ChannelMigrator"
    /\ StartsValid(family)
    /\ "version" \notin DOMAIN startFiles[family].val.d
    /\ pc = "returned"
    /\ applied = <<0, 1, 2, 3>>
    /\ DiskVersion(family) = 4

(***************************************************************************)
(* C2  Version invariant.  On any validated document, whatever version it  *)
(* was loaded with: during the run the version never decreases, changes    *)
(* only by +1 and only as a step completes, and never exceeds the target   *)
(* of the family, in memory or in the file written.                        *)
(***************************************************************************)
C2_VersionBounded ==
    (StartsValid(family) /\ InRun) =>
        /\ MemoryVersion <= TargetVersion(family)
        /\ (Writes # {} => DiskVersion(family) <= TargetVersion(family))

C2_VersionStep ==
    (pc = "loop" /\ pc' \in {"loop", "returned", "raised"}) =>
        /\ version(jsonDict') >= version(jsonDict)
        /\ version(jsonDict') # version(jsonDict) =>
              /\ version(jsonDict') = version(jsonDict) + 1
              /\ applied' = Append(applied, version(jsonDict))

C2_VersionInvariant == [](C2_VersionBounded) /\ [][C2_VersionStep]_vars

(***************************************************************************)
(* C3  No partial write.  Within one run the file is written at most once, *)
(* only by a run that returns and has completed every step up to the       *)
(* target; a run in which a step raises leaves the file as it was, also    *)
(* when the step had changed the document in memory.                       *)
(***************************************************************************)
C3_NoPartialWrite ==
    /\ Cardinality(Writes) <= 1
    /\ Writes # {} =>
          /\ pc = "returned"
          /\ err = "none"
          /\ MemoryVersion >= TargetVersion(family)
          /\ MemoryVersion = LoadedVersion(family) + Len(applied)
    /\ Writes = {} => files = startFiles
    /\ pc = "raised" => files = startFiles /\ Writes = {}

\* a step raised after it had changed the primary dictionary in memory
C3_Witness ==
    /\ pc = "raised"
    /\ err = "KeyError"
    /\ StartsValid(family)
    /\ primaryDict # startFiles[family].val.d[FamilyPrimaryKey(family)]
    /\ files = startFiles

(***************************************************************************)
(* C4  Validation failure is soft.  When the loaded mapping has no tag     *)
(* field, a tag other than the expected one, or no primary key, migrate    *)
(* prints the validation message, applies no step, writes nothing,         *)
(* returns normally with no log entry and keeps no document.               *)
(***************************************************************************)
C4_ValidationSoft ==
    (StartsWithMapping(family) /\ ~StartsValid(family) /\ pc # "start") =>
        /\ pc = "returned"
        /\ err = "none"
        /\ "Error json file is not a class" \in Range(console)
        /\ applied = <<>>
        /\ messages = <<>>
        /\ returned = EmptyLog
        /\ Writes = {}
        /\ files = startFiles
        /\ jsonDict = None

\* a document tagged with another family's class, at a version below the target
C4_Witness ==
    /\ StartsWithMapping(family)
    /\ "x__class__" \in DOMAIN startFiles[family].val.d
    /\ startFiles[family].val.d["x__class__"] # JStr(FamilyTagClass(family))
    /\ FamilyPrimaryKey(family) \in DOMAIN startFiles[family].val.d
    /\ LoadedVersion(family) < TargetVersion(family)
    /\ pc = "returned"

(***************************************************************************)
(* C5  Unreadable document is soft.  When the file is missing, is not      *)
(* JSON, or holds a JSON value that is not a mapping, migrate returns      *)
(* normally with an empty log, applies no step and writes nothing.         *)
(***************************************************************************)
C5_UnreadableSoft ==
    (~StartsWithMapping(family) /\ pc # "start") =>
        /\ pc = "returned"
        /\ err = "none"
        /\ returned = EmptyLog
        /\ applied = <<>>
        /\ Writes = {}
        /\ files = startFiles

(***************************************************************************)
(* C6  Missing step is fatal.  From a state of the loop in which the       *)
(* version v is below the target and the class has no version_v_to_v+1,    *)
(* the only step is the one that raises: no step function is applied, the  *)
(* version stays v and the file is not written; and a run that ended with  *)
(* this error has written nothing and returned nothing.                    *)
(***************************************************************************)
C6_MissingStepRaises ==
    (/\ pc = "loop"
     /\ version(jsonDict) < TargetVersion(family)
     /\ ~HasStep(family, version(jsonDict))) =>
        /\ pc' = "raised"
        /\ err' = "AttributeError"
        /\ applied' = applied
        /\ version(jsonDict') = version(jsonDict)
        /\ files' = files
        /\ io' = io

C6_MissingStepEnd ==
    err = "AttributeError" =>
        /\ pc = "raised"
        /\ returned = None
        /\ Writes = {}
        /\ files = startFiles
        /\ MemoryVersion = LoadedVersion(family) + Len(applied)

C6_MissingStepFatal == [](C6_MissingStepEnd) /\ [][C6_MissingStepRaises]_vars

\* a validated document at version -1, for which no class has a step
C6_Witness ==
    /\ err = "AttributeError"
    /\ StartsValid(family)
    /\ LoadedVersion(family) = 0 - 1
    /\ MemoryVersion = 0 - 1
    /\ applied = <<>>

(***************************************************************************)
(* C7  Idempotence at the target.  A run on a validated document already   *)
(* at the target applies no step, logs nothing and writes a document with  *)
(* the same keys and values as the loaded one; and a run that follows a    *)
(* run that saved leaves the document in the file as it found it.          *)
(***************************************************************************)
C7_IdempotentAtTarget ==
    /\ (StartsValid(family) /\ LoadedVersion(family) = TargetVersion(family) /\ pc # "start") =>
          /\ pc \in {"loop", "returned"}
          /\ applied = <<>>
          /\ messages = <<>>
          /\ (pc = "returned" =>
                 /\ returned = EmptyLog
                 /\ Writes # {}
                 /\ SameDoc(files[family].val, startFiles[family].val))
    /\ (previous = "saved" /\ pc # "start") =>
          /\ pc \in {"loop", "returned"}
          /\ applied = <<>>
          /\ (pc = "returned" =>
                 /\ Writes # {}
                 /\ SameDoc(files[family].val, startFiles[family].val))

\* the second run on a Channel file that the first run took through step 3 to 4
C7_Witness ==
    /\ family = "ChannelMigrator"
    /\ previous = "saved"
    /\ runs = 2
    /\ pc = "returned"
    /\ Writes # {}
    /\ LoadedVersion(family) = 4
    /\ "x__module__" \in DOMAIN startFiles[family].val.d

(***************************************************************************)
(* C8  Invalid operator response is fatal.  In Channel step 3 to 4 an      *)
(* answer other than '1', '2', '3' ends the prompting at once with an      *)
(* error: the run is raised, the version stays 3 and the file is not       *)
(* written.  With recognised answers there is exactly one prompt per       *)
(* distinct non-empty AWG of the PhysicalQuadratureChannel and             *)
(* PhysicalMarkerChannel entities, and a translator that was set is        *)
(* APSPattern, APS2Pattern, TekPattern for the answer '1', '2', '3' given  *)
(* for the AWG of the channel.                                             *)
(***************************************************************************)
RecognizedCodes == {"1", "2", "3"}

PatternFor(code) ==
    CASE code = "1" -> "APSPattern"
      [] code = "2" -> "APS2Pattern"
      [] code = "3" -> "TekPattern"

PhysicalNames(pd) ==
    {n \in DOMAIN pd.d :
        /\ pd.d[n].t = "dict"
        /\ "x__class__" \in DOMAIN pd.d[n].d
        /\ pd.d[n].d["x__class__"] \in {JStr("PhysicalQuadratureChannel"),
                                        JStr("PhysicalMarkerChannel")}}

NonEmptyAWGs(pd) ==
    {pd.d[n].d["AWG"].s : n \in {m \in PhysicalNames(pd) :
                                    /\ "AWG" \in DOMAIN pd.d[m].d
                                    /\ pd.d[m].d["AWG"] # JStr("")}}

BadAnswer(i) == prompts[i].response \notin RecognizedCodes

C8_InvalidResponseFatal ==
    /\ (\E i \in 1..Len(prompts) : BadAnswer(i)) =>
          /\ \A i \in 1..Len(prompts) : BadAnswer(i) <=> i = Len(prompts)
          /\ pc = "raised"
          /\ err = "NameError"
          /\ MemoryVersion = 3
          /\ Writes = {}
          /\ files = startFiles
    /\ err = "NameError" => \E i \in 1..Len(prompts) : BadAnswer(i)
    /\ (family = "ChannelMigrator" /\ InRun /\ jsonDict # None
           /\ (prompts # <<>> \/ 3 \in Range(applied))
           /\ \A i \in 1..Len(prompts) : ~BadAnswer(i)) =>
          /\ \A i, j \in 1..Len(prompts) : prompts[i].awg = prompts[j].awg => i = j
          /\ {prompts[i].awg : i \in 1..Len(prompts)} = NonEmptyAWGs(primaryDict)
          /\ \A n \in PhysicalNames(primaryDict) :
                "translator" \in DOMAIN primaryDict.d[n].d =>
                    \E i \in 1..Len(prompts) :
                        /\ JStr(prompts[i].awg) = primaryDict.d[n].d["AWG"]
                        /\ primaryDict.d[n].d["translator"] = JStr(PatternFor(prompts[i].response))
          /\ 3 \in Range(applied) =>
                \A n \in PhysicalNames(primaryDict) : "translator" \in DOMAIN primaryDict.d[n].d

\* the first answer was recognised, the second was not
C8_Witness ==
    /\ family = "ChannelMigrator"
    /\ err = "NameError"
    /\ Len(prompts) = 2
    /\ prompts[1].response = "2"
    /\ prompts[2].response = "x"
    /\ "x__module__" \in DOMAIN jsonDict.d
    /\ files = startFiles

(***************************************************************************)
(* C9  Batch ordering and propagation.  migrate_all runs the migrators in  *)
(* the order Instrument, Sweep, MeasurementFilter; the file of a family is *)
(* read, and written at most once, before the file of the next family is   *)
(* opened; the returned log is the concatenation of the per-family logs    *)
(* in that order; a family whose file is missing or fails validation       *)
(* contributes no entry and the batch goes on; every family whose document *)
(* is valid has been brought to its target when the batch returns; after   *)
(* an error in one family nothing more happens and nothing is returned.    *)
(***************************************************************************)
BatchOrder == <<"InstrumentMigrator", "SweepMigrator", "MeasurementMigrator">>

BatchPos(cls) == CHOOSE i \in 1..Len(BatchOrder) : BatchOrder[i] = cls

SoftStart(cls) ==
    \/ startFiles[cls].kind = "missing"
    \/ (StartsWithMapping(cls) /\ ~StartsValid(cls))

C9_BatchState ==
    /\ idx \in 1..Len(BatchOrder) => family = BatchOrder[idx]
    /\ \A i \in 1..Len(io) :
          /\ io[i].file \in Range(BatchOrder)
          /\ BatchPos(io[i].file) <= (IF idx > Len(BatchOrder) THEN Len(BatchOrder) ELSE idx)
    /\ \A i \in 1..(Len(io) - 1) :
          /\ BatchPos(io[i].file) <= BatchPos(io[i + 1].file)
          /\ io[i].file = io[i + 1].file => io[i].op = "r" /\ io[i + 1].op = "w"
          /\ io[i].file # io[i + 1].file => io[i + 1].op = "r"
    /\ \A i \in 1..Len(allMessages) :
          /\ \A j \in 1..Len(allMessages[i]) : allMessages[i][j].cls = BatchOrder[i]
          /\ SoftStart(BatchOrder[i]) => allMessages[i] = <<>>
    /\ (idx \in 1..Len(BatchOrder) /\ SoftStart(family) /\ pc # "start") =>
          pc = "returned" /\ err = "none" /\ returned = EmptyLog
    /\ pc = "batch_returned" =>
          /\ Len(allMessages) = 3
          /\ batchResult.e = allMessages[1] \o allMessages[2] \o allMessages[3]
          /\ \A cls \in Range(BatchOrder) :
                IF StartsValid(cls)
                THEN /\ DiskVersion(cls) >= TargetVersion(cls)
                     /\ DiskVersion(cls) >= LoadedVersion(cls)
                ELSE files[cls] = startFiles[cls]
    /\ pc = "raised" => batchResult = None /\ err # "none"
    /\ batchResult # None => pc = "batch_returned"

C9_BatchOrdering == [](C9_BatchState) /\ [][pc # "raised"]_vars

\* the Instrument file is missing; the Sweep and filter files were migrated
C9_Witness ==
    /\ pc = "batch_returned"
    /\ startFiles["InstrumentMigrator"] = Missing
    /\ batchResult.e = <<Msg("SweepMigrator", 0), Msg("MeasurementMigrator", 0),
                         Msg("MeasurementMigrator", 1)>>
    /\ DiskVersion("SweepMigrator") = 1
    /\ DiskVersion("MeasurementMigrator") = 2

(***************************************************************************)
(* C10  Entity filter.  get_items_matching_class returns exactly the names *)
(* of the entities that are mappings with a tag field equal to one of the  *)
(* given class names (a single name given as a string counting as the set  *)
(* of that name), each once, and a second call on the unmodified           *)
(* dictionary returns the same list.                                       *)
(***************************************************************************)
GivenClasses ==
    IF classesArg.t = "str" THEN {classesArg.s} ELSE Range(classesArg.e)

TaggedEntities ==
    {a \in DOMAIN primaryDict.d :
        /\ primaryDict.d[a].t = "dict"
        /\ "x__class__" \in DOMAIN primaryDict.d[a].d
        /\ \E c \in GivenClasses : primaryDict.d[a].d["x__class__"] = JStr(c)}

C10_EntityFilter ==
    \A n \in 1..Len(matching) :
        /\ Range(matching[n]) = TaggedEntities
        /\ \A i, j \in 1..Len(matching[n]) : matching[n][i] = matching[n][j] => i = j
        /\ \A a \in Range(matching[n]) : "x__class__" \in DOMAIN primaryDict.d[a].d
        /\ matching[n] = matching[1]

\* two calls with a list of two names; one entity matches the second name,
\* one has no tag, one is not a mapping
C10_Witness ==
    /\ Len(matching) = 2
    /\ classesArg = ClassList(<<"Measurement", "Qubit2">>)
    /\ matching[2] = <<"q1">>
    /\ DOMAIN primaryDict.d = {"q1", "q2", "m1"}
    /\ primaryDict.d["q1"] = Lit(<<Field("x__class__", "Qubit2")>>)
    /\ primaryDict.d["q2"] = Lit(<<Field("physChan", "p1")>>)
    /\ primaryDict.d["m1"] = JStr("text")

(***************************************************************************)
(* C11  Channel step 2->3.  The step never raises; after it every entity   *)
(* tagged Measurement whose trigChan was "" or absent has trigChan equal   *)
(* to 'digitizerTrig' and its other fields as before, and every other      *)
(* entity (a Measurement with a non-empty trigChan, or an entity that is   *)
(* not a Measurement) is exactly as it was.                                *)
(***************************************************************************)
\* the entity is a mapping tagged with the class
Tagged(e, class) ==
    /\ e.t = "dict"
    /\ "x__class__" \in DOMAIN e.d
    /\ e.d["x__class__"] = JStr(class)

\* this step of the run is the iteration of the family at version n
StepAt(cls, n) ==
    /\ pc = "loop"
    /\ family = cls
    /\ MemoryVersion = n
    /\ Len(messages') = Len(messages) + 1

C11_TrigChanDefault ==
    [][StepAt("ChannelMigrator", 2) =>
          /\ pc' = "loop"
          /\ applied' = Append(applied, 2)
          /\ DOMAIN primaryDict'.d = DOMAIN primaryDict.d
          /\ \A name \in DOMAIN primaryDict.d :
                 LET before == primaryDict.d[name]
                     after  == primaryDict'.d[name]
                 IN  IF /\ Tagged(before, "Measurement")
                        /\ \/ "trigChan" \notin DOMAIN before.d
                           \/ before.d["trigChan"] = JStr("")
                     THEN /\ DOMAIN after.d = DOMAIN before.d \cup {"trigChan"}
                          /\ after.d["trigChan"] = JStr("digitizerTrig")
                          /\ \A f \in DOMAIN before.d \ {"trigChan"} :
                                 after.d[f] = before.d[f]
                     ELSE after = before]_vars

\* a document loaded at version 2 whose measurement m1 had an empty trigChan:
\* after the step m1 has the default, and the qubit q1 is as it was
C11_Witness ==
    /\ family = "ChannelMigrator"
    /\ StartsValid(family)
    /\ LoadedVersion(family) = 2
    /\ pc = "loop"
    /\ applied = <<2>>
    /\ LET start == startFiles[family].val.d["channelDict"]
       IN  /\ {"m1", "q1"} \subseteq DOMAIN start.d
           /\ "trigChan" \in DOMAIN start.d["m1"].d
           /\ start.d["m1"].d["trigChan"] = JStr("")
           /\ primaryDict.d["m1"].d["trigChan"] = JStr("digitizerTrig")
           /\ primaryDict.d["q1"] = start.d["q1"]

(***************************************************************************)
(* C12  rec_snakeify depth gating.  In the mapping rec_snakeify(d,         *)
(* startDepth) returns, the keys at depth below startDepth are the keys of *)
(* d and the keys at depth startDepth or more are their snakeified forms   *)
(* (depth 0 is the top level, one more for each mapping nested directly as *)
(* a value); the value under a key is the value d held under a key it      *)
(* comes from, re-labelled the same way if it is a mapping and unchanged   *)
(* otherwise, arrays and the mappings inside arrays included.  With        *)
(* startDepth 1, {'Outer': {'InnerKey': 1}} gives                          *)
(* {'Outer': {'inner_key': 1}}.                                            *)
(***************************************************************************)
\* the key that stands for key at this depth
GatedKey(key, startDepth, depth) ==
    IF depth < startDepth THEN key ELSE snakeify(key)

RECURSIVE Gated(_, _, _, _)
Gated(in, out, startDepth, depth) ==
    /\ out.t = "dict"
    /\ DOMAIN out.d = {GatedKey(key, startDepth, depth) : key \in DOMAIN in.d}
    /\ Range(out.k) = DOMAIN out.d
    /\ \A new \in DOMAIN out.d :
           \E key \in DOMAIN in.d :
              /\ GatedKey(key, startDepth, depth) = new
              /\ IF in.d[key].t = "dict"
                 THEN Gated(in.d[key], out.d[new], startDepth, depth + 1)
                 ELSE out.d[new] = in.d[key]

C12_DepthGating ==
    (pc = "rec_snakeify" /\ results # <<>>) =>
        /\ Gated(arg.dictionary, results[1], arg.start_level, 0)
        /\ (arg = [dictionary |-> Lit(<<<<"Outer", Lit(<<<<"InnerKey", JInt(1)>>>>)>>>>),
                   start_level |-> 1]) =>
               results[1] = Lit(<<<<"Outer", Lit(<<<<"inner_key", JInt(1)>>>>)>>>>)

\* start_level 1 on a mapping two levels deep with an array at the second level:
\* the key of the top level is kept, the two levels below are re-labelled and
\* the mapping inside the array is not
C12_Witness ==
    /\ pc = "rec_snakeify"
    /\ arg.start_level = 1
    /\ arg.dictionary =
           Lit(<<<<"Outer", Lit(<<<<"Outer", JInt(1)>>,
                                  <<"InnerKey",
                                    Lit(<<<<"InnerKey", RecArray>>>>)>>>>)>>>>)
    /\ results =
           <<Lit(<<<<"Outer", Lit(<<<<"outer", JInt(1)>>,
                                    <<"inner_key",
                                      Lit(<<<<"inner_key", RecArray>>>>)>>>>)>>>>)>>

(***************************************************************************)
(* C13  snakeify.  The value returned is the name in lower case with a '_' *)
(* before each capital that has a character before it and is followed by a *)
(* small letter or preceded by a small letter or a digit: the two          *)
(* substitutions, then lower().  snakeify('SSBFreq') is 'ssb_freq' and     *)
(* snakeify('trigChan') is 'trig_chan'; snakeify(snakeify(k)) is           *)
(* snakeify(k) for every k, and a name without a capital is returned       *)
(* unchanged.                                                              *)
(***************************************************************************)
\* a '_' goes before the j-th character of s
Underscored(s, j) ==
    /\ j >= 2
    /\ IsUpper(s[j])
    /\ \/ j < Len(s) /\ IsLower(s[j + 1])
       \/ IsLower(s[j - 1])
       \/ IsDigit(s[j - 1])

RECURSIVE SnakeForm(_, _)
SnakeForm(s, j) ==
    IF j > Len(s) THEN <<>>
    ELSE (IF Underscored(s, j) THEN <<"_">> ELSE <<>>)
             \o <<LowerChar(s[j])>> \o SnakeForm(s, j + 1)

C13_Snakeify ==
    (pc = "snakeify" /\ results # <<>>) =>
        /\ results[1] = SnakeForm(arg.name, 1)
        /\ arg.name = Chars["SSBFreq"] => results[1] = Chars["ssb_freq"]
        /\ arg.name = Chars["trigChan"] => results[1] = Chars["trig_chan"]
        /\ (\A j \in 1..Len(arg.name) : ~IsUpper(arg.name[j])) => results[1] = arg.name
        /\ \A i \in 2..Len(results) : results[i] = results[1]

\* 'SSBFreq' has become 'ssb_freq', and snakeify of 'ssb_freq' is 'ssb_freq'
C13_Witness ==
    /\ pc = "snakeify"
    /\ arg.name = Chars["SSBFreq"]
    /\ results = <<Chars["ssb_freq"], Chars["ssb_freq"]>>

(***************************************************************************)
(* C14  Codec round trip.  For an Atom object x whose members do not have  *)
(* the names x__class__ and x__module__: what the encoder writes for x is  *)
(* the mapping of x's members plus exactly the two fields x__class__ (the  *)
(* name of x's class) and x__module__ (the module that defines it), and    *)
(* decoding it gives an object of the same class and module whose members  *)
(* are all the fields but those two, with the values x has.  A mapping     *)
(* without x__class__ and without __class__ decodes to a mapping with the  *)
(* same keys, and to the very same mapping if no mapping inside it has     *)
(* such a field.                                                           *)
(***************************************************************************)
ReservedNames == {"x__class__", "x__module__"}

NoReservedMember(x) ==
    /\ DOMAIN x.state.d \cap ReservedNames = {}
    /\ \A f \in DOMAIN x.state.d :
           x.state.d[f].t = "obj" => DOMAIN x.state.d[f].state.d \cap ReservedNames = {}

Untagged(j) == j.t = "dict" /\ ~Has(j, "x__class__") /\ ~Has(j, "__class__")

RECURSIVE Plain(_)
Plain(j) ==
    j.t = "dict" => (Untagged(j) /\ \A key \in DOMAIN j.d : Plain(j.d[key]))

\* m is what the encoder writes for the object x
RECURSIVE EncodingOf(_, _)
EncodingOf(m, x) ==
    /\ m.t = "dict"
    /\ DOMAIN m.d = DOMAIN x.state.d \cup ReservedNames
    /\ m.d["x__class__"] = JStr(x.class)
    /\ m.d["x__module__"] = JStr(x.module)
    /\ \A f \in DOMAIN x.state.d :
           IF x.state.d[f].t = "obj"
           THEN EncodingOf(m.d[f], x.state.d[f])
           ELSE m.d[f] = x.state.d[f]

C14_RoundTrip ==
    (pc = "codec" /\ results # <<>>) =>
        /\ (arg.x.t = "obj" /\ arg.x.atom /\ NoReservedMember(arg.x)) =>
               /\ EncodingOf(results[1], arg.x)
               /\ Len(results) = 2 =>
                      /\ results[2].t = "obj"
                      /\ results[2].class = arg.x.class
                      /\ results[2].module = arg.x.module
                      /\ DOMAIN results[2].state.d = DOMAIN results[1].d \ ReservedNames
                      /\ results[2].state = arg.x.state
        /\ (Untagged(arg.x) /\ Len(results) = 2 /\ results[2].t # "raise") =>
               /\ results[2].t = "dict"
               /\ results[2].k = arg.x.k
               /\ Plain(arg.x) => results[2] = arg.x

\* a qubit that holds a physical channel has been written and read back
C14_Witness ==
    /\ pc = "codec"
    /\ arg.x.t = "obj"
    /\ arg.x.class = "Qubit"
    /\ arg.x.state.d["label"] = JStr("q1")
    /\ arg.x.state.d["physChan"].t = "obj"
    /\ Len(results) = 2
    /\ Has(results[1], "x__class__")
    /\ Has(results[1].d["physChan"], "x__module__")
    /\ results[2] = arg.x

(***************************************************************************)
(* C15  Dangling reference is soft.  In Channel step 1->2 on a primary     *)
(* dict whose Qubit and Measurement entities all carry a physChan, one of  *)
(* them naming an entity that is not in the dict or that has no SSBFreq:   *)
(* the step prints one message for each such entity and leaves the entity *)
(* as it was, without a frequency; the other logical channels get their    *)
(* frequency, no PhysicalQuadratureChannel keeps an SSBFreq, the step does *)
(* not raise and the run stays in its loop at version 2, from where the    *)
(* later steps and the save are reached.                                   *)
(***************************************************************************)
\* the Qubit and Measurement entities of the primary dict
LogicalChannels(pd) ==
    {name \in DOMAIN pd.d : Tagged(pd.d[name], "Qubit") \/ Tagged(pd.d[name], "Measurement")}

\* the physChan of the logical channel names an entity of pd that holds SSBFreq
Resolves(pd, name) ==
    /\ "physChan" \in DOMAIN pd.d[name].d
    /\ pd.d[name].d["physChan"].t = "str"
    /\ pd.d[name].d["physChan"].s \in DOMAIN pd.d
    /\ pd.d[pd.d[name].d["physChan"].s].t = "dict"
    /\ "SSBFreq" \in DOMAIN pd.d[pd.d[name].d["physChan"].s].d

\* ... or names no entity, or one without SSBFreq
Dangling(pd) ==
    {name \in LogicalChannels(pd) :
        "physChan" \in DOMAIN pd.d[name].d /\ ~Resolves(pd, name)}

NoSSBFreqLeft(pd) ==
    \A name \in DOMAIN pd.d :
       Tagged(pd.d[name], "PhysicalQuadratureChannel") => "SSBFreq" \notin DOMAIN pd.d[name].d

C15_DanglingSoft ==
    [][(/\ StepAt("ChannelMigrator", 1)
        /\ \A name \in LogicalChannels(primaryDict) :
               "physChan" \in DOMAIN primaryDict.d[name].d
        /\ Dangling(primaryDict) # {}) =>
          /\ pc' = "loop"
          /\ err' = "none"
          /\ applied' = Append(applied, 1)
          /\ version(jsonDict') = 2
          /\ loop_condition(jsonDict', family)
          /\ Len(console') = Len(console) + Cardinality(Dangling(primaryDict))
          /\ \A name \in Dangling(primaryDict) :
                 /\ primaryDict'.d[name] = primaryDict.d[name]
                 /\ "frequency" \notin DOMAIN primaryDict'.d[name].d
          /\ \A name \in LogicalChannels(primaryDict) \ Dangling(primaryDict) :
                 "frequency" \in DOMAIN primaryDict'.d[name].d
          /\ NoSSBFreqLeft(primaryDict')]_vars

\* a run from version 1 whose qubit names a channel that does not exist has
\* returned: the message was printed, the three steps were applied, the file was
\* written, and in it the qubit has no frequency while the measurement has one
C15_Witness ==
    /\ family = "ChannelMigrator"
    /\ StartsValid(family)
    /\ LoadedVersion(family) = 1
    /\ pc = "returned"
    /\ applied = <<1, 2, 3>>
    /\ Writes # {}
    /\ LET start == startFiles[family].val.d["channelDict"]
           end   == files[family].val.d["channelDict"]
       IN  /\ {"q1", "p1", "m1"} \subseteq DOMAIN start.d
           /\ start.d["q1"].d["physChan"] = JStr("nowhere")
           /\ "SSBFreq" \in DOMAIN start.d["p1"].d
           /\ "Error: Physical Channel not found." \in Range(console)
           /\ "frequency" \notin DOMAIN end.d["q1"].d
           /\ "frequency" \in DOMAIN end.d["m1"].d
           /\ "SSBFreq" \notin DOMAIN end.d["p1"].d

(***************************************************************************)
(* C16  Channel step 1->2 copies before it deletes.  When the step         *)
(* completes, every Qubit or Measurement entity whose physChan named an    *)
(* entity holding SSBFreq has a frequency equal to that SSBFreq, also when *)
(* several of them name the same physical channel, and no                  *)
(* PhysicalQuadratureChannel entity holds an SSBFreq.                      *)
(***************************************************************************)
C16_CopyBeforeDelete ==
    [][(StepAt("ChannelMigrator", 1) /\ pc' = "loop") =>
          /\ \A name \in LogicalChannels(primaryDict) :
                 Resolves(primaryDict, name) =>
                    /\ "frequency" \in DOMAIN primaryDict'.d[name].d
                    /\ primaryDict'.d[name].d["frequency"] =
                           primaryDict.d[primaryDict.d[name].d["physChan"].s].d["SSBFreq"]
          /\ NoSSBFreqLeft(primaryDict')]_vars

\* the qubit and the measurement both named p1: after the step both have the
\* frequency p1 held, and p1 holds it no more
C16_Witness ==
    /\ family = "ChannelMigrator"
    /\ StartsValid(family)
    /\ LoadedVersion(family) = 1
    /\ pc = "loop"
    /\ applied = <<1>>
    /\ LET start == startFiles[family].val.d["channelDict"]
       IN  /\ {"q1", "p1", "m1"} \subseteq DOMAIN start.d
           /\ start.d["q1"].d["physChan"] = JStr("p1")
           /\ "physChan" \in DOMAIN start.d["m1"].d
           /\ start.d["m1"].d["physChan"] = JStr("p1")
           /\ "SSBFreq" \in DOMAIN start.d["p1"].d
           /\ primaryDict.d["q1"].d["frequency"] = start.d["p1"].d["SSBFreq"]
           /\ primaryDict.d["m1"].d["frequency"] = start.d["p1"].d["SSBFreq"]
           /\ "SSBFreq" \notin DOMAIN primaryDict.d["p1"].d

(***************************************************************************)
(* C17  Log contents.  A run on a validated document loaded at a version   *)
(* v <= target that returns, returns target - v entries, the i-th naming   *)
(* the family and the transition v+i-1 to v+i; and at any moment of a run  *)
(* every entry of the log names a transition that has been applied: the    *)
(* entry of a transition is appended after its step has executed.          *)
(***************************************************************************)
C17_LogContents ==
    (StartsValid(family) /\ InRun /\ LoadedVersion(family) <= TargetVersion(family)) =>
        /\ pc = "returned" =>
               /\ returned.t = "list"
               /\ returned.e = [i \in 1..(TargetVersion(family) - LoadedVersion(family)) |->
                                   [cls |-> family,
                                    from |-> LoadedVersion(family) + i - 1,
                                    to |-> LoadedVersion(family) + i]]
        /\ \A i \in 1..Len(messages) :
               /\ messages[i].cls = family
               /\ messages[i].from \in Range(applied)

(***************************************************************************)
(* C18  Re-embedding on save.  The document a run writes holds under the   *)
(* primary key the primary dict as the last step left it, also when a step *)
(* has assigned a new mapping to it (Instrument 3->4, MeasurementFilter    *)
(* 1->2).  In the file written by an Instrument run that applied step      *)
(* 3->4 the entities have the names they had at the start, and an entity   *)
(* that had a field 'SomeField' has 'some_field' and no 'SomeField'.       *)
(***************************************************************************)
C18_ReEmbedding ==
    (StartsValid(family) /\ pc = "returned" /\ Writes # {}) =>
        LET start   == startFiles[family].val.d[FamilyPrimaryKey(family)]
            written == files[family].val.d[FamilyPrimaryKey(family)]
        IN  /\ FamilyPrimaryKey(family) \in DOMAIN files[family].val.d
            /\ SameDoc(written, primaryDict)
            /\ (family = "InstrumentMigrator" /\ 3 \in Range(applied)) =>
                   /\ DOMAIN written.d = DOMAIN start.d
                   /\ \A name \in DOMAIN start.d :
                          (start.d[name].t = "dict" /\ "SomeField" \in DOMAIN start.d[name].d) =>
                              /\ "some_field" \in DOMAIN written.d[name].d
                              /\ "SomeField" \notin DOMAIN written.d[name].d
                              /\ written.d[name].d["some_field"] = start.d[name].d["SomeField"]

\* an Instrument document loaded at version 1 with the entity yoko: the three
\* steps were applied, and the file written names yoko with 'some_field'
C18_Witness ==
    /\ family = "InstrumentMigrator"
    /\ StartsValid(family)
    /\ pc = "returned"
    /\ applied = <<1, 2, 3>>
    /\ Writes # {}
    /\ "yoko" \in DOMAIN startFiles[family].val.d["instrDict"].d
    /\ "SomeField" \in DOMAIN startFiles[family].val.d["instrDict"].d["yoko"].d
    /\ "some_field" \in DOMAIN files[family].val.d["instrDict"].d["yoko"].d
    /\ "SomeField" \notin DOMAIN files[family].val.d["instrDict"].d["yoko"].d

(***************************************************************************)
(* C19  Channel step 3->4 completes whenever every answer is recognized.   *)
(* On a primary dict in which every PhysicalQuadratureChannel and          *)
(* PhysicalMarkerChannel entity has an AWG field, empty or not: if every   *)
(* answer of the operator is one of the recognized codes the step does not *)
(* raise, and once it is applied each of these channels has as translator  *)
(* the pattern chosen for its AWG and the document has x__module__ equal   *)
(* to 'QGL.ChannelLibrary'.                                                *)
(***************************************************************************)
AllHaveAWG(pd) ==
    \A n \in PhysicalNames(pd) : "AWG" \in DOMAIN pd.d[n].d

C19_RecognizedCompletes ==
    (/\ family = "ChannelMigrator"
     /\ InRun
     /\ jsonDict # None
     /\ StartsValid(family)
     /\ AllHaveAWG(primaryDict)
     /\ \A i \in 1..Len(prompts) : ~BadAnswer(i)) =>
        /\ MemoryVersion = 3 => pc # "raised"
        /\ 3 \in Range(applied) =>
               /\ "x__module__" \in DOMAIN jsonDict.d
               /\ jsonDict.d["x__module__"] = JStr("QGL.ChannelLibrary")
               /\ \A n \in PhysicalNames(primaryDict) :
                      /\ "translator" \in DOMAIN primaryDict.d[n].d
                      /\ \E i \in 1..Len(prompts) :
                             /\ JStr(prompts[i].awg) = primaryDict.d[n].d["AWG"]
                             /\ primaryDict.d[n].d["translator"] =
                                    JStr(PatternFor(prompts[i].response))

(***************************************************************************)
(* C20  rec_snakeify loses no entry.  At every level the mapping returned  *)
(* has as many entries as the mapping given: two distinct sibling keys     *)
(* never get the same key in the result.                                   *)
(***************************************************************************)
RECURSIVE SameCount(_, _, _, _)
SameCount(in, out, startDepth, depth) ==
    /\ out.t = "dict"
    /\ \A k1, k2 \in DOMAIN in.d :
           k1 # k2 => GatedKey(k1, startDepth, depth) # GatedKey(k2, startDepth, depth)
    /\ Cardinality(DOMAIN out.d) = Cardinality(DOMAIN in.d)
    /\ \A key \in DOMAIN in.d :
           in.d[key].t = "dict" =>
               SameCount(in.d[key], out.d[GatedKey(key, startDepth, depth)],
                         startDepth, depth + 1)

C20_NoEntryLost ==
    (pc = "rec_snakeify" /\ results # <<>>) =>
        SameCount(arg.dictionary, results[1], arg.start_level, 0)

====
